---- MODULE Spec2Model ----
(***************************************************************************)
(* Model of the streaming risk-scoring core of the betting-app fraud       *)
(* detection repository: RealTimeFraudMonitor                              *)
(* (src/test/utils/real-time-monitor.js).                                  *)
(*                                                                         *)
(* Time is in milliseconds, as in the source.  Risks and weights are JS    *)
(* numbers in the source; here a calculator's risk is an integer number of *)
(* 1/RiskUnit (every divisor the calculators use divides RiskUnit), a      *)
(* weight is an integer number of hundredths, and a composite score is the *)
(* exact fraction [num, den] in lowest terms.                              *)
(***************************************************************************)
EXTENDS Integers, Sequences, FiniteSets, TLC

VARIABLES
    now,              \* Date.now()
    config,           \* this.config
    eventStream,      \* this.eventStream
    activeUsers,      \* this.activeUsers (Map userId -> profile)
    riskScores,       \* this.riskScores  (Map userId -> {score, timestamp, factors})
    alertQueue,       \* this.alertQueue
    processedEvents,  \* this.processedEvents
    alertsSent,       \* this.alertsSent
    fraudAlerts,      \* the alerts emitted to the 'fraudAlert' listeners, in order
    webhookCalls,     \* the calls of sendWebhookAlert made so far
    connection,       \* this.websocket, this.isMonitoring and the reconnect timeout
    lastCall,         \* the handler that ran last, its arguments and its locals
    timers,           \* when the two setInterval timers are next due
    ticks,            \* number of clock advances so far
    budget,           \* bound on processedEvents + ticks in this run
    replica,          \* a second monitor fed the same events in another order
    biometrics,       \* the BehavioralBiometricsAnalyzer: config, userProfiles, currentSession
    network           \* the NetworkFraudAnalyzer: config, ipClusters, deviceFingerprints, userNetworkProfiles

vars == <<now, config, eventStream, activeUsers, riskScores, alertQueue,
          processedEvents, alertsSent, fraudAlerts, webhookCalls, connection,
          lastCall, timers, ticks, budget, replica, biometrics, network>>

\* the variables of the monitor
monitorVars == <<now, config, eventStream, activeUsers, riskScores, alertQueue,
                 processedEvents, alertsSent, fraudAlerts, webhookCalls, connection,
                 lastCall, timers, ticks, budget, replica>>

----------------------------------------------------------------------------
(* Bounds of the model *)

\* events ingested plus clock advances in one run of Spec
MaxSteps == 3
\* the same for SpecFaults
MaxFaultSteps == 3
\* bets placed plus clock advances in one run of SpecScenario
MaxScenarioSteps == 11
\* number of bet timestamps SpecOrder draws its sets of bets from
MaxOrderBets == 3
\* the maxEventsPerWindow SpecBuffer configures; its runs ingest one event more
MaxBuffer == 2
\* events ingested plus clock advances in one run of SpecLifecycle
MaxLifecycleSteps == 3
\* events ingested in one run of SpecMalformed
MaxMalformedSteps == 3
\* events ingested in one run of SpecWebhook and SpecWebhookLive
MaxWebhookSteps == 3
\* alerts triggered in one run of SpecBands
MaxBandAlerts == 1
\* events ingested in one run of SpecReevaluate
MaxReevaluateSteps == 3
\* location changes ingested plus clock advances in one run of SpecLocation
MaxLocationSteps == 3
\* events ingested plus clock advances in one run of SpecStartup
MaxStartupSteps == 3
\* sessions started in one run of SpecBiometrics
MaxSessions == 3
\* the composite scores of SpecAuthenticity are the multiples of 1 / ScoreGrid
ScoreGrid == 20
\* calls of the network analyzer plus clock advances in one run of SpecNetwork
MaxNetworkSteps == 3
\* calls of the network analyzer in one run of SpecRings
MaxRingSteps == 4
\* events ingested plus clock advances in one run of SpecSweep
MaxSweepSteps == 4
\* events ingested plus clock advances in one run of SpecRetention
MaxRetentionSteps == 4
\* samples collected in the session of SpecCollect
MaxSamples == 21
\* sessions started in one run of SpecEndSession
MaxEndSessions == 3
\* samples collected in one run of SpecEndSession
MaxEndSamples == 2
\* analyses of one user in one run of SpecHistory
MaxHistorySteps == 103
\* entries of the second address in the user's ipHistory at one time
MaxOtherAddress == 1

----------------------------------------------------------------------------
(* Program constants *)

velocityTimeWindow == 60000
rapidLocationWindow == 300000
defaultMonitoringWindow == 300000
defaultMaxEventsPerWindow == 1000
highValueBet == 1000
maxLoginAttempts == 3
maxNormalVelocity == 10
patternDivisor == 5
locationDivisor == 3
deviceDivisor == 2
behaviorDivisor == 100
DayMs == 24 * 60 * 60 * 1000
riskLoopInterval == 30000
cleanupInterval == 300000
reconnectDelay == 5000

\* risks are counted in units of 1/RiskUnit
RiskUnit == 3 * 100

----------------------------------------------------------------------------
(* Arithmetic on exact fractions *)

Min(a, b) == IF a < b THEN a ELSE b

RECURSIVE GCD(_, _)
GCD(a, b) == IF b = 0 THEN a ELSE GCD(b, a % b)

\* the JS number num/den (den > 0), in lowest terms
Ratio(num, den) ==
    LET g == GCD(num, den)
    IN  IF num = 0 THEN [num |-> 0, den |-> 1]
        ELSE [num |-> num \div g, den |-> den \div g]

ZeroScore == [num |-> 0, den |-> 1]

\* a >= b, a + b and a / n on fractions
GE(a, b) == a.num * b.den >= b.num * a.den
Plus(a, b) ==
    LET l == (a.den \div GCD(a.den, b.den)) * b.den
    IN  Ratio(a.num * (l \div a.den) + b.num * (l \div b.den), l)
DivBy(a, n) ==
    LET g == GCD(a.num, n)
    IN  IF a.num = 0 THEN ZeroScore
        ELSE [num |-> a.num \div g, den |-> a.den * (n \div g)]

\* the configured thresholds and the severity bands
Frac(n, d) == [num |-> n, den |-> d]

----------------------------------------------------------------------------
(* Maps *)

MapSet(map, key, value) ==
    [k \in (DOMAIN map) \cup {key} |-> IF k = key THEN value ELSE map[k]]

MapDelete(map, keys) == [k \in (DOMAIN map) \ keys |-> map[k]]

EmptyMap == [k \in {} |-> 0]

----------------------------------------------------------------------------
(* The monitor as a value: the fields the handlers read and write *)

Self ==
    [config          |-> config,
     eventStream     |-> eventStream,
     activeUsers     |-> activeUsers,
     riskScores      |-> riskScores,
     alertQueue      |-> alertQueue,
     processedEvents |-> processedEvents,
     alertsSent      |-> alertsSent,
     fraudAlerts     |-> fraudAlerts,
     webhookCalls    |-> webhookCalls]

\* constructor: the state of a new monitor under configuration cfg
NewMonitor(cfg) ==
    [config          |-> cfg,
     eventStream     |-> <<>>,
     activeUsers     |-> EmptyMap,
     riskScores      |-> EmptyMap,
     alertQueue      |-> <<>>,
     processedEvents |-> 0,
     alertsSent      |-> 0,
     fraudAlerts     |-> <<>>,
     webhookCalls    |-> <<>>]

defaultAlertThreshold == Frac(7, 10)

\* this.config for a constructor argument that sets alertThreshold or not
Config(alertThreshold) ==
    [alertThreshold     |-> alertThreshold,
     monitoringWindow   |-> defaultMonitoringWindow,
     maxEventsPerWindow |-> defaultMaxEventsPerWindow,
     alertWebhook       |-> FALSE]

\* the order of the riskCalculators Map
riskCalculators == <<"velocity", "pattern", "location", "device", "behavior">>

CalculatorNames == {riskCalculators[i] : i \in 1..Len(riskCalculators)}

----------------------------------------------------------------------------
(* Helper methods *)

\* maintainSlidingWindow
maintainSlidingWindow(m, t) ==
    LET cutoff == t - m.config.monitoringWindow
    IN  [m EXCEPT !.eventStream =
            SelectSeq(m.eventStream, LAMBDA e : e.timestamp > cutoff)]

\* calculateBettingVelocity
calculateBettingVelocity(m, userProfile, event) ==
    IF event.type # "bet_placed"
    THEN userProfile.behaviorMetrics.bettingVelocity
    ELSE Len(SelectSeq(m.eventStream, LAMBDA e :
                /\ e.userId = userProfile.userId
                /\ e.type = "bet_placed"
                /\ e.timestamp > event.timestamp - velocityTimeWindow))

\* the stable sort by descending timestamp of isRapidLocationChange:
\* position k (1-based) of the sorted sequence holds the element that has
\* fewer than k elements before it in the order
Before(s, i, j) ==
    \/ s[i].timestamp > s[j].timestamp
    \/ s[i].timestamp = s[j].timestamp /\ i < j

SortDescending(s) ==
    [k \in 1..Len(s) |->
        s[CHOOSE i \in 1..Len(s) :
            Cardinality({j \in 1..Len(s) : Before(s, j, i)}) = k - 1]]

\* isRapidLocationChange
isRapidLocationChange(m, userProfile, event) ==
    LET sorted == SortDescending(SelectSeq(m.eventStream, LAMBDA e :
                      e.userId = userProfile.userId /\ e.type = "location_change"))
    IN  IF Len(sorted) < 2 THEN FALSE
        ELSE event.timestamp - sorted[2].timestamp < rapidLocationWindow

\* mutant: the lower bounds of the bands are exclusive
getSeverityLevel_exclusive(riskScore) ==
    IF ~GE(Frac(9, 10), riskScore) THEN "critical"
    ELSE IF ~GE(Frac(7, 10), riskScore) THEN "high"
    ELSE IF ~GE(Frac(5, 10), riskScore) THEN "medium"
    ELSE "low"

\* getSeverityLevel
getSeverityLevel(riskScore) ==
    IF GE(riskScore, Frac(9, 10)) THEN "critical"
    ELSE IF GE(riskScore, Frac(7, 10)) THEN "high"
    ELSE IF GE(riskScore, Frac(5, 10)) THEN "medium"
    ELSE "low"

\* generateRecommendations
generateRecommendations(event, riskScore) ==
    IF GE(riskScore, Frac(9, 10)) THEN <<"immediate_account_suspension">>
    ELSE IF GE(riskScore, Frac(7, 10)) THEN <<"enhanced_monitoring", "manual_review">>
    ELSE IF GE(riskScore, Frac(5, 10)) THEN <<"additional_verification">>
    ELSE <<>>

----------------------------------------------------------------------------
(* Update of the user profile *)

\* the profile updateUserBehavior creates for an unseen user; ref is the
\* identity of the new object (alerts hold the profile by reference)
NewProfile(userId, event, ref) ==
    [userId          |-> userId,
     ref             |-> ref,
     firstSeen       |-> event.timestamp,
     lastActivity    |-> event.timestamp,
     eventCount      |-> 0,
     behaviorMetrics |-> [bettingVelocity   |-> 0,
                          locationChanges   |-> 0,
                          deviceSwitches    |-> 0,
                          patternDeviations |-> 0,
                          suspiciousActions |-> <<>>],
     riskHistory     |-> <<>>]

SuspiciousAction(type, event) == [type |-> type, timestamp |-> event.timestamp]

\* the switch of updateBehaviorMetrics
updateMetricsByType(m, userProfile, event) ==
    LET metrics == userProfile.behaviorMetrics
    IN  CASE event.type = "bet_placed" ->
               [metrics EXCEPT
                   !.bettingVelocity = calculateBettingVelocity(m, userProfile, event),
                   !.suspiciousActions =
                       IF event.amount > highValueBet
                       THEN Append(@, SuspiciousAction("high_value_bet", event))
                       ELSE @]
          [] event.type = "location_change" ->
               [metrics EXCEPT
                   !.locationChanges = @ + 1,
                   !.suspiciousActions =
                       IF isRapidLocationChange(m, userProfile, event)
                       THEN Append(@, SuspiciousAction("rapid_location_change", event))
                       ELSE @]
          [] event.type = "device_switch" ->
               [metrics EXCEPT
                   !.deviceSwitches = @ + 1,
                   !.suspiciousActions =
                       Append(@, SuspiciousAction("device_switch", event))]
          [] event.type = "login" ->
               [metrics EXCEPT
                   !.suspiciousActions =
                       IF event.loginAttempts > maxLoginAttempts
                       THEN Append(@, SuspiciousAction("multiple_login_attempts", event))
                       ELSE @]
          [] OTHER -> metrics

\* the filter that ends updateBehaviorMetrics
cleanSuspiciousActions(actions, event) ==
    LET dayAgo == event.timestamp - DayMs
    IN  SelectSeq(actions, LAMBDA action : action.timestamp > dayAgo)

\* updateBehaviorMetrics
updateBehaviorMetrics(m, userProfile, event) ==
    LET metrics == updateMetricsByType(m, userProfile, event)
    IN  [userProfile EXCEPT !.behaviorMetrics =
            [metrics EXCEPT !.suspiciousActions = cleanSuspiciousActions(@, event)]]

\* the assignment to lastActivity in updateUserBehavior
touchLastActivity(userProfile, event) ==
    [userProfile EXCEPT !.lastActivity = event.timestamp, !.eventCount = @ + 1]

\* updateUserBehavior
updateUserBehavior(m, event) ==
    LET userId == event.userId
        created == IF userId \in DOMAIN m.activeUsers
                   THEN m.activeUsers[userId]
                   ELSE NewProfile(userId, event, m.processedEvents)
        userProfile == updateBehaviorMetrics(m, touchLastActivity(created, event), event)
    IN  [m EXCEPT !.activeUsers = MapSet(@, userId, userProfile)]

----------------------------------------------------------------------------
(* Risk calculators: each returns {risk, weight} *)

NoProfileRisk == [risk |-> 0, weight |-> 100]

\* calculateVelocityRisk
calculateVelocityRisk(m, event) ==
    IF event.userId \notin DOMAIN m.activeUsers THEN NoProfileRisk
    ELSE LET velocity == Len(SelectSeq(m.eventStream, LAMBDA e :
                            /\ e.userId = event.userId
                            /\ e.timestamp > event.timestamp - velocityTimeWindow))
         IN  [risk   |-> Min((velocity * RiskUnit) \div maxNormalVelocity, RiskUnit),
              weight |-> 25]

\* calculatePatternRisk
calculatePatternRisk(m, event) ==
    IF event.userId \notin DOMAIN m.activeUsers THEN NoProfileRisk
    ELSE LET suspiciousActionCount ==
                 Len(m.activeUsers[event.userId].behaviorMetrics.suspiciousActions)
         IN  [risk   |-> Min((suspiciousActionCount * RiskUnit) \div patternDivisor, RiskUnit),
              weight |-> 30]

\* mutant: an event that is no location_change takes no part in the mean
calculateLocationRisk_excluded(m, event) ==
    IF event.type # "location_change" THEN [risk |-> 0, weight |-> 0]
    ELSE IF event.userId \notin DOMAIN m.activeUsers THEN NoProfileRisk
    ELSE [risk   |-> Min((m.activeUsers[event.userId].behaviorMetrics.locationChanges
                            * RiskUnit) \div locationDivisor, RiskUnit),
          weight |-> 20]

\* calculateLocationRisk
calculateLocationRisk(m, event) ==
    IF event.type # "location_change" THEN [risk |-> 0, weight |-> 100]
    ELSE IF event.userId \notin DOMAIN m.activeUsers THEN NoProfileRisk
    ELSE LET locationChanges ==
                 m.activeUsers[event.userId].behaviorMetrics.locationChanges
         IN  [risk   |-> Min((locationChanges * RiskUnit) \div locationDivisor, RiskUnit),
              weight |-> 20]

\* calculateDeviceRisk
calculateDeviceRisk(m, event) ==
    IF event.userId \notin DOMAIN m.activeUsers THEN NoProfileRisk
    ELSE LET deviceSwitches ==
                 m.activeUsers[event.userId].behaviorMetrics.deviceSwitches
         IN  [risk   |-> Min((deviceSwitches * RiskUnit) \div deviceDivisor, RiskUnit),
              weight |-> 15]

\* calculateBehaviorRisk
calculateBehaviorRisk(m, event) ==
    IF event.userId \notin DOMAIN m.activeUsers THEN NoProfileRisk
    ELSE LET bettingVelocity ==
                 m.activeUsers[event.userId].behaviorMetrics.bettingVelocity
         IN  [risk   |-> Min((bettingVelocity * RiskUnit) \div behaviorDivisor, RiskUnit),
              weight |-> 10]

\* the entry of the riskCalculators Map under key type
calculator(type, m, event) ==
    CASE type = "velocity" -> calculateVelocityRisk(m, event)
      [] type = "pattern"  -> calculatePatternRisk(m, event)
      [] type = "location" -> calculateLocationRisk(m, event)
      [] type = "device"   -> calculateDeviceRisk(m, event)
      [] type = "behavior" -> calculateBehaviorRisk(m, event)

\* mutant: the risk is added without its weight
contribution_unweighted(result) == result.risk * 100

\* totalRisk += risk * weight
contribution(result) == result.risk * result.weight

\* the body of the try block of calculateRealTimeRisk
accumulate(acc, result) ==
    [totalRisk |-> acc.totalRisk + contribution(result),
     weightSum |-> acc.weightSum + result.weight]

\* mutant: a calculator that threw counts as zero risk at full weight
skipFailed_zeroRisk(acc, type) == [acc EXCEPT !.weightSum = @ + 100]

\* the catch block of calculateRealTimeRisk: the calculator threw
skipFailed(acc, type) == acc

\* the loop of calculateRealTimeRisk over the calculators from position i on;
\* failed is the set of calculators that throw in this evaluation
RECURSIVE riskLoop(_, _, _, _, _)
riskLoop(m, event, failed, i, acc) ==
    IF i > Len(riskCalculators) THEN acc
    ELSE LET type == riskCalculators[i]
         IN  riskLoop(m, event, failed, i + 1,
                 IF type \in failed THEN skipFailed(acc, type)
                 ELSE accumulate(acc, calculator(type, m, event)))

\* normalizedRisk = weightSum > 0 ? totalRisk / weightSum : 0
normalizedRisk(acc) ==
    IF acc.weightSum > 0
    THEN Ratio(acc.totalRisk, RiskUnit * acc.weightSum)
    ELSE ZeroScore

\* getDetailedRiskFactors
getDetailedRiskFactors(m, event) ==
    IF event.userId \notin DOMAIN m.activeUsers THEN <<>>
    ELSE LET metrics == m.activeUsers[event.userId].behaviorMetrics
             f1 == IF metrics.bettingVelocity > 50
                   THEN <<[type |-> "high_betting_velocity",
                           value |-> metrics.bettingVelocity]>> ELSE <<>>
             f2 == IF metrics.locationChanges > 2
                   THEN <<[type |-> "multiple_location_changes",
                           value |-> metrics.locationChanges]>> ELSE <<>>
             f3 == IF metrics.deviceSwitches > 1
                   THEN <<[type |-> "device_switching",
                           value |-> metrics.deviceSwitches]>> ELSE <<>>
             f4 == IF Len(metrics.suspiciousActions) > 3
                   THEN <<[type |-> "multiple_suspicious_actions",
                           value |-> Len(metrics.suspiciousActions)]>> ELSE <<>>
         IN  f1 \o f2 \o f3 \o f4

\* mutant: the factors of an evaluation are added to those stored before
riskEntry_accumulating(m, event, score) ==
    [score     |-> score,
     timestamp |-> event.timestamp,
     factors   |-> (IF event.userId \in DOMAIN m.riskScores
                    THEN m.riskScores[event.userId].factors ELSE <<>>)
                   \o getDetailedRiskFactors(m, event)]

\* the entry calculateRealTimeRisk stores in riskScores
riskEntry(m, event, score) ==
    [score     |-> score,
     timestamp |-> event.timestamp,
     factors   |-> getDetailedRiskFactors(m, event)]

\* calculateRealTimeRisk: the monitor after the call and the value returned
calculateRealTimeRisk(m, event, failed) ==
    LET acc   == riskLoop(m, event, failed, 1, [totalRisk |-> 0, weightSum |-> 0])
        score == normalizedRisk(acc)
    IN  [m     |-> [m EXCEPT !.riskScores =
                       MapSet(@, event.userId, riskEntry(m, event, score))],
         score |-> score]

----------------------------------------------------------------------------
(* Alerts *)

\* the 'fraudAlert' listeners are called with alert
emitFraudAlert(m, alert) == [m EXCEPT !.fraudAlerts = Append(@, alert)]

\* sendWebhookAlert up to its await: fetch is called and has not settled
fetchWebhook(m, alert) ==
    [m EXCEPT !.webhookCalls =
        Append(@, [alert |-> alert, response |-> "pending", resumed |-> FALSE])]

\* triggerAlert up to its first await: with no webhook configured it runs to
\* its end; alertId is the unique id generateEventId returns
triggerAlert(m, event, riskScore, t) ==
    LET alert == [alertId         |-> m.alertsSent + 1,
                  timestamp       |-> t,
                  userId          |-> event.userId,
                  riskScore       |-> riskScore,
                  event           |-> event,
                  severity        |-> getSeverityLevel(riskScore),
                  userProfile     |-> IF event.userId \in DOMAIN m.activeUsers
                                      THEN m.activeUsers[event.userId].ref ELSE 0,
                  recommendations |-> generateRecommendations(event, riskScore)]
        queued == [m EXCEPT !.alertQueue = Append(@, alert), !.alertsSent = @ + 1]
    IN  IF m.config.alertWebhook
        THEN fetchWebhook(queued, alert)
        ELSE emitFraudAlert(queued, alert)

\* mutant: the configured threshold is ignored
alertCheck_hardcoded(m, riskScore) == GE(riskScore, defaultAlertThreshold)

\* if (riskScore >= this.config.alertThreshold)
alertCheck(m, riskScore) == GE(riskScore, m.config.alertThreshold)

----------------------------------------------------------------------------
(* Ingestion *)

\* event.timestamp = event.timestamp || Date.now()
stamped(event, t) ==
    IF event.timestamp = 0 THEN [event EXCEPT !.timestamp = t] ELSE event

\* processIncomingEvent returning before its alert decision is taken
processIncomingEvent_deferredDecision(m, rawEvent, t, failed) ==
    LET event  == stamped(rawEvent, t)
        pushed == [m EXCEPT !.eventStream = Append(@, event),
                            !.processedEvents = @ + 1]
        window == maintainSlidingWindow(pushed, t)
        updated == updateUserBehavior(window, event)
        scored  == calculateRealTimeRisk(updated, event, failed)
    IN  [m |-> scored.m, event |-> event, riskScore |-> scored.score]

\* processIncomingEvent at time t: the monitor after the call, the event as
\* stamped and the local riskScore
processIncomingEvent(m, rawEvent, t, failed) ==
    LET event  == stamped(rawEvent, t)
        pushed == [m EXCEPT !.eventStream = Append(@, event),
                            !.processedEvents = @ + 1]
        window == maintainSlidingWindow(pushed, t)
        updated == updateUserBehavior(window, event)
        scored  == calculateRealTimeRisk(updated, event, failed)
        alerted == IF alertCheck(scored.m, scored.score)
                   THEN triggerAlert(scored.m, event, scored.score, t)
                   ELSE scored.m
    IN  [m |-> alerted, event |-> event, riskScore |-> scored.score]

----------------------------------------------------------------------------
(* The two sweeps *)

\* calculateAggregateRisk: the scores of the events of one user, in order;
\* every call of calculateRealTimeRisk reads only eventStream and the profile
RECURSIVE sumScores(_, _, _, _)
sumScores(m, events, failed, i) ==
    IF i > Len(events) THEN ZeroScore
    ELSE Plus(calculateRealTimeRisk(m, events[i], failed).score,
              sumScores(m, events, failed, i + 1))

calculateAggregateRisk(m, events, failed) ==
    IF Len(events) = 0 THEN ZeroScore
    ELSE DivBy(sumScores(m, events, failed, 1), Len(events))

recentEventsOf(m, userId, t) ==
    LET cutoff == t - m.config.monitoringWindow
    IN  SelectSeq(m.eventStream, LAMBDA e : e.userId = userId /\ e.timestamp > cutoff)

\* calculateAggregateRisks.  The loop body for one user writes that user's
\* riskHistory and riskScores entry only and reads eventStream and that user's
\* metrics only, so the iterations are written per user.
calculateAggregateRisks(m, t, failed) ==
    LET recent(u) == recentEventsOf(m, u, t)
        dayAgo == t - DayMs
        history(u) ==
            SelectSeq(Append(m.activeUsers[u].riskHistory,
                        [timestamp  |-> t,
                         risk       |-> calculateAggregateRisk(m, recent(u), failed),
                         eventCount |-> Len(recent(u))]),
                      LAMBDA r : r.timestamp > dayAgo)
        scoredUsers == {u \in DOMAIN m.activeUsers : Len(recent(u)) > 0}
        lastEvent(u) == recent(u)[Len(recent(u))]
    IN  [m EXCEPT
            !.activeUsers = [u \in DOMAIN m.activeUsers |->
                IF u \in scoredUsers
                THEN [m.activeUsers[u] EXCEPT !.riskHistory = history(u)]
                ELSE m.activeUsers[u]],
            !.riskScores = [u \in (DOMAIN m.riskScores) \cup scoredUsers |->
                IF u \in scoredUsers
                THEN calculateRealTimeRisk(m, lastEvent(u), failed).m.riskScores[u]
                ELSE m.riskScores[u]]]

\* mutant: the alerts are never expired
cleanupOldData_keepsAlerts(m, t) ==
    LET cutoff == t - m.config.monitoringWindow
    IN  [m EXCEPT
            !.eventStream = SelectSeq(@, LAMBDA e : e.timestamp > cutoff),
            !.activeUsers = MapDelete(@, {u \in DOMAIN @ : @[u].lastActivity < cutoff}),
            !.riskScores  = MapDelete(@, {u \in DOMAIN @ : @[u].timestamp < cutoff})]

\* cleanupOldData
cleanupOldData(m, t) ==
    LET cutoff == t - m.config.monitoringWindow
    IN  [m EXCEPT
            !.eventStream = SelectSeq(@, LAMBDA e : e.timestamp > cutoff),
            !.activeUsers = MapDelete(@, {u \in DOMAIN @ : @[u].lastActivity < cutoff}),
            !.riskScores  = MapDelete(@, {u \in DOMAIN @ : @[u].timestamp < cutoff}),
            !.alertQueue  = SelectSeq(@, LAMBDA a : a.timestamp > cutoff)]

----------------------------------------------------------------------------
(* Inputs *)

Users == {"user_001", "user_002"}

StartTime == DayMs + 2 * defaultMonitoringWindow

\* steps of the clock between two handlers
TickSteps == {velocityTimeWindow, DayMs + velocityTimeWindow}

\* how far behind the clock the timestamp of a delivered event can be
Lags == {2 * velocityTimeWindow}

RawEvent(userId, type, amount, loginAttempts, timestamp) ==
    [userId |-> userId, type |-> type, amount |-> amount,
     loginAttempts |-> loginAttempts, timestamp |-> timestamp]

\* the payloads of the feed; timestamp 0 stands for an event without timestamp
Payloads(userId, timestamp) ==
    {RawEvent(userId, "bet_placed", a, 0, timestamp) : a \in {100, 2000}}
    \cup {RawEvent(userId, "login", 0, n, timestamp) : n \in {1, 4}}
    \cup {RawEvent(userId, type, 0, 0, timestamp) :
              type \in {"location_change", "device_switch"}}

\* user ids are interchangeable: the first user of a run is called user_001
FeedUsers == IF processedEvents = 0 THEN {"user_001"} ELSE Users

FeedEvents ==
    UNION {Payloads(u, ts) : u \in FeedUsers, ts \in {0} \cup {now - lag : lag \in Lags}}

\* the configurations the monitor is constructed with
Configs == {Config(defaultAlertThreshold), Config(Frac(1, 4))}

\* the sets of calculators that throw in one evaluation
FailureSets == {{}, {"location"}, {"velocity", "pattern"}, CalculatorNames}

NoEvent == RawEvent("", "", 0, 0, 0)

\* a handler run at time t
Call(op, t, event, failed, riskScore) ==
    [op |-> op, time |-> t, event |-> event, failed |-> failed,
     riskScore |-> riskScore]

----------------------------------------------------------------------------
(* Actions *)

Install(m) ==
    /\ config' = m.config
    /\ eventStream' = m.eventStream
    /\ activeUsers' = m.activeUsers
    /\ riskScores' = m.riskScores
    /\ alertQueue' = m.alertQueue
    /\ processedEvents' = m.processedEvents
    /\ alertsSent' = m.alertsSent
    /\ fraudAlerts' = m.fraudAlerts
    /\ webhookCalls' = m.webhookCalls

\* websocket 'message': processIncomingEvent(JSON.parse(data))
ProcessIncomingEvent(rawEvent, failed) ==
    /\ processedEvents + ticks < budget
    /\ LET r == processIncomingEvent(Self, rawEvent, now, failed)
       IN  /\ Install(r.m)
           /\ lastCall' = Call("processIncomingEvent", now, r.event, failed, r.riskScore)
    /\ UNCHANGED <<now, timers, ticks, budget, biometrics, network, replica, connection>>

\* the timer of startRiskCalculationLoop fires
CalculateAggregateRisks(failed) ==
    /\ "riskCalculation" \in DOMAIN timers
    /\ now >= timers.riskCalculation
    /\ timers' = [timers EXCEPT !.riskCalculation = now + riskLoopInterval]
    /\ Install(calculateAggregateRisks(Self, now, failed))
    /\ lastCall' = Call("calculateAggregateRisks", now, NoEvent, failed, ZeroScore)
    /\ UNCHANGED <<now, ticks, budget, biometrics, network, replica, connection>>

\* the timer of startCleanupLoop fires
CleanupOldData ==
    /\ "cleanup" \in DOMAIN timers
    /\ now >= timers.cleanup
    /\ timers' = [timers EXCEPT !.cleanup = now + cleanupInterval]
    /\ Install(cleanupOldData(Self, now))
    /\ lastCall' = Call("cleanupOldData", now, NoEvent, {}, ZeroScore)
    /\ UNCHANGED <<now, ticks, budget, biometrics, network, replica, connection>>

\* time passes
Tick(step) ==
    /\ processedEvents + ticks < budget
    /\ now' = now + step
    /\ ticks' = ticks + 1
    /\ UNCHANGED <<config, eventStream, activeUsers, riskScores, alertQueue,
                   processedEvents, alertsSent, fraudAlerts, webhookCalls,
                   connection, lastCall, timers, budget, biometrics, network, replica>>

\* startRiskCalculationLoop and startCleanupLoop called at time t
StartLoops(t) ==
    [riskCalculation |-> t + riskLoopInterval, cleanup |-> t + cleanupInterval]

\* this.websocket and this.isMonitoring once 'open' has been handled
Connected ==
    [websocket |-> "open", isMonitoring |-> TRUE, reconnectAt |-> 0, stopped |-> FALSE,
     initializing |-> FALSE]

NoReplica ==
    [m |-> NewMonitor(Config(defaultAlertThreshold)),
     pending |-> [monitor |-> {}, replica |-> {}]]

----------------------------------------------------------------------------
(* The behavioural biometrics analyzer (behavioral-biometrics.js).         *)
(* Similarities, weights and the similarity threshold are in hundredths.   *)
(* A composite score is the exact fraction num / den; den = 0 is null.     *)

\* config.similarityThreshold || 0.85
similarityThreshold == 85
\* the 0.2 below the threshold that still counts as authentic
confidenceMargin == 20

Modalities == <<"mouse", "keystroke", "touch", "scroll">>
ModalitySet == {Modalities[i] : i \in 1..Len(Modalities)}

\* weights of calculateCompositeBiometricScore
biometricWeights == [mouse |-> 30, keystroke |-> 35, touch |-> 25, scroll |-> 10]
\* weights[type] || 0.25
defaultBiometricWeight == 25

NullScore == [num |-> 0, den |-> 0]

\* the value of a biometricReport that has not been generated (null)
NoReport == [userId |-> "", sessionId |-> 0]

\* config.minDataPoints || 100
defaultMinDataPoints == 100

BiometricsConfig(threshold) ==
    [similarityThreshold |-> threshold, minDataPoints |-> defaultMinDataPoints]

\* the sample array of a session for each modality
dataField == [mouse |-> "mouseData", keystroke |-> "keystrokeData",
              touch |-> "touchData", scroll |-> "scrollData"]

\* length % 50 === 0, % 20, % 30, % 15 of the collect functions
analysisInterval == [mouse |-> 50, keystroke |-> 20, touch |-> 30, scroll |-> 15]

\* no collect call has been made
NoCollect == [op |-> "", userId |-> ""]

\* new BehavioralBiometricsAnalyzer(cfg); sessions counts the ids handed out
\* by generateSessionId, score is a composite score waiting for its decision,
\* ending holds the sessions whose endSession is awaiting, call is the last
\* collect call and events counts the input events of the page per modality
NewAnalyzer(cfg) ==
    [config |-> cfg, userProfiles |-> EmptyMap, currentSession |-> EmptyMap,
     sessions |-> 0, score |-> NullScore, report |-> NoReport,
     ending |-> EmptyMap, call |-> NoCollect,
     events |-> [modality \in ModalitySet |-> 0]]

\* startSession: the session keeps the stored profile as its baseline
startSession(m, userId, t) ==
    LET sessionData ==
            [userId |-> userId, sessionId |-> m.sessions + 1, startTime |-> t,
             mouseData |-> <<>>, keystrokeData |-> <<>>, touchData |-> <<>>,
             scrollData |-> <<>>, interactionPatterns |-> <<>>,
             isActive |-> TRUE]
        loaded ==
            IF userId \in DOMAIN m.userProfiles
            THEN MapSet(sessionData, "baselineProfile", m.userProfiles[userId])
            ELSE sessionData
    IN  [m EXCEPT !.sessions = m.sessions + 1,
                  !.currentSession = MapSet(m.currentSession, userId, loaded)]

\* maintainDataWindow keeping the oldest maxDataPoints entries
maintainDataWindow_keepOldest(m, dataArray) ==
    LET maxDataPoints == m.config.minDataPoints * 3
    IN  IF Len(dataArray) > maxDataPoints
        THEN SubSeq(dataArray, 1, maxDataPoints)
        ELSE dataArray

\* maintainDataWindow: splice(0, length - maxDataPoints)
maintainDataWindow(m, dataArray) ==
    LET maxDataPoints == m.config.minDataPoints * 3
    IN  IF Len(dataArray) > maxDataPoints
        THEN SubSeq(dataArray, Len(dataArray) - maxDataPoints + 1, Len(dataArray))
        ELSE dataArray

\* collectMouseMovement, collectKeystroke, collectTouchGesture and
\* collectScrollBehavior: the sample is pushed, the modality is analysed when
\* the length of the array is a multiple of its interval (the analysis pushes
\* a snapshot to interactionPatterns), then the array is trimmed.  The await
\* of the analysis lets only other calls of the analyzer run, and the trim
\* that follows it has nothing to remove, so the call is one step
collect(m, userId, modality, sample) ==
    LET called == [m EXCEPT !.call = [op |-> "collect", userId |-> userId]]
    IN  IF userId \notin DOMAIN m.currentSession THEN called
        ELSE LET session == m.currentSession[userId]
                 pushed  == Append(session[dataField[modality]], sample)
                 analysed ==
                     IF Len(pushed) % analysisInterval[modality] = 0
                     THEN Append(session.interactionPatterns,
                                 [type |-> modality, samples |-> Len(pushed)])
                     ELSE session.interactionPatterns
             IN  IF ~session.isActive THEN called
                 ELSE [called EXCEPT !.currentSession[userId] =
                         [session EXCEPT ![dataField[modality]] = maintainDataWindow(m, pushed),
                                         !.interactionPatterns = analysed]]

\* the stored profile of one modality (mouseProfile, keystrokeProfile, ...)
modalityProfile(profile, modality) == profile.profiles[modality]

\* analyzeMouseBehavior, analyzeKeystrokeDynamics, analyzeTouchBehavior and
\* analyzeScrollBehavior: the analysis has a similarity only when the session
\* has a baseline for the modality; measured is what calculateSimilarity gives
analyzeBehavior(session, modality, measured) ==
    IF /\ "baselineProfile" \in DOMAIN session
       /\ modalityProfile(session.baselineProfile, modality) # 0
    THEN [type |-> modality, similarity |-> measured]
    ELSE [type |-> modality]

\* the modality an analysis belongs to
getAnalysisType(analysis) == analysis.type

RECURSIVE weighted(_, _)
\* the forEach of calculateCompositeBiometricScore over analyses[1..i]
weighted(analyses, i) ==
    IF i = 0 THEN [totalScore |-> 0, totalWeight |-> 0]
    ELSE LET rest == weighted(analyses, i - 1)
             analysis == analyses[i]
             type == getAnalysisType(analysis)
             weight == IF type \in DOMAIN biometricWeights
                       THEN biometricWeights[type] ELSE defaultBiometricWeight
         IN  IF "similarity" \in DOMAIN analysis
             THEN [totalScore |-> rest.totalScore + analysis.similarity * weight,
                   totalWeight |-> rest.totalWeight + weight]
             ELSE rest

calculateCompositeBiometricScore(analyses) ==
    LET sums == weighted(analyses, Len(analyses))
    IN  IF Len(analyses) = 0 THEN NullScore
        ELSE IF sums.totalWeight > 0
        THEN [num |-> sums.totalScore, den |-> 100 * sums.totalWeight]
        ELSE [num |-> 0, den |-> 1]

\* determineAuthenticity with > in place of >=
determineAuthenticity_strict(m, compositeBiometricScore) ==
    LET s == compositeBiometricScore
        T == m.config.similarityThreshold
    IN  IF s.den = 0 \/ s.num = 0
        THEN [authentic |-> FALSE, reason |-> "insufficient_data"]
        ELSE IF s.num * 100 > T * s.den
        THEN [authentic |-> TRUE, confidence |-> "high"]
        ELSE IF s.num * 100 > (T - confidenceMargin) * s.den
        THEN [authentic |-> TRUE, confidence |-> "medium"]
        ELSE [authentic |-> FALSE, confidence |-> "high"]

\* !compositeBiometricScore holds of null and of 0
determineAuthenticity(m, compositeBiometricScore) ==
    LET s == compositeBiometricScore
        T == m.config.similarityThreshold
    IN  IF s.den = 0 \/ s.num = 0
        THEN [authentic |-> FALSE, reason |-> "insufficient_data"]
        ELSE IF s.num * 100 >= T * s.den
        THEN [authentic |-> TRUE, confidence |-> "high"]
        ELSE IF s.num * 100 >= (T - confidenceMargin) * s.den
        THEN [authentic |-> TRUE, confidence |-> "medium"]
        ELSE [authentic |-> FALSE, confidence |-> "high"]

\* the condition position of an if: every object is truthy
ToBoolean(object) == DOMAIN object = DOMAIN object

\* the composite score is not an outlier relative to the user's history
shouldUpdateProfile(compositeBiometricScore, outlier) == ~outlier

\* the weighted average of the stored metrics and the session's, kept as the
\* number of sessions averaged
updateProfileMetrics(stored, analysis) == stored + 1

updateUserBiometricProfile(m, userId, biometricReport, t) ==
    LET profile ==
            IF userId \in DOMAIN m.userProfiles THEN m.userProfiles[userId]
            ELSE [userId |-> userId, createdAt |-> t, updatedAt |-> t,
                  sessionCount |-> 0,
                  profiles |-> [modality \in ModalitySet |-> 0]]
    IN  [m EXCEPT !.userProfiles = MapSet(m.userProfiles, userId,
            [profile EXCEPT
                !.updatedAt = t,
                !.sessionCount = profile.sessionCount + 1,
                !.profiles = [modality \in ModalitySet |->
                    updateProfileMetrics(profile.profiles[modality],
                                         biometricReport.profiles[modality])]])]

\* generateBiometricAnalysis for a user with a session; measured holds the
\* similarity of each modality to its baseline
generateBiometricAnalysis(m, userId, measured, outlier, t) ==
    LET session == m.currentSession[userId]
        analyses == [i \in 1..Len(Modalities) |->
                        analyzeBehavior(session, Modalities[i], measured[Modalities[i]])]
        compositeBiometricScore == calculateCompositeBiometricScore(analyses)
        isAuthentic == determineAuthenticity(m, compositeBiometricScore)
        biometricReport ==
            [userId |-> userId, sessionId |-> session.sessionId, timestamp |-> t,
             profiles |-> [modality \in ModalitySet |->
                             analyzeBehavior(session, modality, measured[modality])],
             compositeBiometricScore |-> compositeBiometricScore,
             isAuthentic |-> isAuthentic,
             dataQuality |-> [modality \in ModalitySet |->
                                Len(session[dataField[modality]])]]
        updated ==
            IF ToBoolean(isAuthentic) /\ shouldUpdateProfile(compositeBiometricScore, outlier)
            THEN updateUserBiometricProfile(m, userId, biometricReport, t)
            ELSE m
    IN  [updated EXCEPT !.report = biometricReport]

\* endSession: the final report, then the session is deleted
endSession(m, userId, measured, outlier, t) ==
    IF userId \notin DOMAIN m.currentSession THEN [m EXCEPT !.report = NoReport]
    ELSE LET analysed == generateBiometricAnalysis(m, userId, measured, outlier, t)
         IN  [analysed EXCEPT !.currentSession = MapDelete(analysed.currentSession, {userId})]

\* endSession up to the first await of generateBiometricAnalysis: the session
\* is marked inactive, the mouse analysis has pushed its snapshot, and the
\* call holds on to the session object it read
suspendEndSession(m, userId) ==
    LET session == m.currentSession[userId]
        stopped == [session EXCEPT
                      !.isActive = FALSE,
                      !.interactionPatterns =
                          Append(@, [type |-> "mouse", samples |-> Len(session.mouseData)])]
    IN  [m EXCEPT !.currentSession[userId] = stopped,
                  !.ending = MapSet(@, userId, stopped)]

\* endSession from that await on: the report of the session the call holds
\* (a session started meanwhile has the same baseline, no profile of the
\* user being stored while the call waits), then currentSession.delete(userId)
resumeEndSession(m, userId, measured, outlier, t) ==
    LET held == [m EXCEPT !.currentSession = MapSet(@, userId, m.ending[userId])]
        analysed == generateBiometricAnalysis(held, userId, measured, outlier, t)
    IN  [analysed EXCEPT !.currentSession = MapDelete(m.currentSession, {userId}),
                         !.ending = MapDelete(m.ending, {userId})]

NoBiometrics == NewAnalyzer(BiometricsConfig(similarityThreshold))

----------------------------------------------------------------------------
(* The network fraud analyzer (network-analyzer.js).  A JavaScript value is *)
(* a record named after its type; an object such as networkData is the     *)
(* sequence of its <<key, value>> pairs in enumeration order.              *)

Str(s) == [string |-> s]
Num(n) == [number |-> n]
Bool(b) == [boolean |-> b]
JsNull == [null |-> TRUE]
NaN == [nan |-> TRUE]
Undefined == [undefined |-> TRUE]

\* object[key]: undefined when the object has no such key
Field(object, key) ==
    IF \E i \in 1..Len(object) : object[i][1] = key
    THEN object[CHOOSE i \in 1..Len(object) : object[i][1] = key][2]
    ELSE Undefined

\* config.suspiciousNetworkThreshold || 5
defaultSuspiciousNetworkThreshold == 5
\* config.minClusterSize || 3
defaultMinClusterSize == 3
\* km/h (commercial flight)
maxPossibleSpeed == 1000
HourMs == 3600000
maxHistorySize == 100

NetworkConfig(threshold, clusterSize) ==
    [suspiciousNetworkThreshold |-> threshold, minClusterSize |-> clusterSize]

NoCall == [op |-> "constructor"]

\* new NetworkFraudAnalyzer(cfg); call and result are the last operation and
\* what it returned, payloads and fingerprints the inputs and outputs of
\* generateBrowserFingerprint
NewNetworkAnalyzer(cfg) ==
    [config |-> cfg, ipClusters |-> EmptyMap, deviceFingerprints |-> EmptyMap,
     userNetworkProfiles |-> EmptyMap, calls |-> 0, call |-> NoCall,
     result |-> [threw |-> FALSE], fraudRings |-> {},
     payloads |-> <<>>, fingerprints |-> <<>>]

\* the object literal of generateBrowserFingerprint: key, and the key of
\* networkData it is read from
fingerprintKeys ==
    << <<"userAgent", "userAgent">>,
       <<"screenResolution", "screenResolution">>,
       <<"timezone", "timezone">>,
       <<"language", "acceptLanguage">>,
       <<"platform", "platformInfo">>,
       <<"colorDepth", "colorDepth">>,
       <<"plugins", "plugins">>,
       <<"cookiesEnabled", "cookiesEnabled">>,
       <<"doNotTrack", "doNotTrack">> >>

\* fingerprintData without its last key
fingerprintData_withoutDoNotTrack(networkData) ==
    [i \in 1..(Len(fingerprintKeys) - 1) |->
        <<fingerprintKeys[i][1], Field(networkData, fingerprintKeys[i][2])>>]

fingerprintData(networkData) ==
    [i \in 1..Len(fingerprintKeys) |->
        <<fingerprintKeys[i][1], Field(networkData, fingerprintKeys[i][2])>>]

\* JSON.stringify of a primitive: NaN is written as null
stringifyValue(value) ==
    IF "string" \in DOMAIN value THEN "\"" \o value.string \o "\""
    ELSE IF "number" \in DOMAIN value THEN ToString(value.number)
    ELSE IF "boolean" \in DOMAIN value THEN (IF value.boolean THEN "true" ELSE "false")
    ELSE "null"

RECURSIVE stringifyMembers(_, _)
\* the members of object[i..], a member whose value is undefined is left out
stringifyMembers(object, i) ==
    IF i > Len(object) THEN ""
    ELSE LET rest == stringifyMembers(object, i + 1)
         IN  IF object[i][2] = Undefined THEN rest
             ELSE ",\"" \o object[i][1] \o "\":" \o stringifyValue(object[i][2]) \o rest

\* JSON.stringify of an object of primitives
JSONstringify(object) ==
    LET members == stringifyMembers(object, 1)
    IN  IF members = "" THEN "{}"
        ELSE "{" \o SubSeq(members, 2, Len(members)) \o "}"

\* crypto.createHash('sha256').update(text).digest('hex'), without collisions
sha256(text) == [sha256 |-> text]

generateBrowserFingerprint(networkData) ==
    sha256(JSONstringify(fingerprintData(networkData)))

extractNetworkInfo(networkData, t) ==
    [ipAddress |-> Field(networkData, "ipAddress"),
     userAgent |-> Field(networkData, "userAgent"),
     browserFingerprint |-> generateBrowserFingerprint(networkData),
     timestamp |-> t]

NoLocation == [city |-> ""]
London == [city |-> "London", country |-> "GB"]
NewYork == [city |-> "New York", country |-> "US"]

\* what geoip.lookup knows: two public addresses, and a private one without entry
geoDatabase ==
    [k \in {Str("81.2.69.142"), Str("72.229.28.185")} |->
        IF k = Str("81.2.69.142") THEN London ELSE NewYork]

\* geoAnalyzer.getLocation: null when the address is unknown and when the
\* lookup throws
getLocation(ipAddress, lookups) ==
    IF lookups = "geolocation_fails" THEN NoLocation
    ELSE IF ipAddress \in DOMAIN geoDatabase THEN geoDatabase[ipAddress]
    ELSE NoLocation

\* great-circle distance London - New York, in km
londonNewYorkKm == 5570

\* geoAnalyzer.calculateDistance, on the locations of geoDatabase
calculateDistance(loc1, loc2) ==
    IF loc1 = NoLocation \/ loc2 = NoLocation THEN 0
    ELSE IF loc1 = loc2 THEN 0
    ELSE londonNewYorkKm

\* maintainHistorySize with slice(0, maxHistorySize)
maintainHistorySize_keepOldest(history) ==
    IF Len(history) > maxHistorySize
    THEN SubSeq(history, 1, maxHistorySize)
    ELSE history

\* history.slice(-maxHistorySize)
maintainHistorySize(history) ==
    IF Len(history) > maxHistorySize
    THEN SubSeq(history, Len(history) - maxHistorySize + 1, Len(history))
    ELSE history

updateUserNetworkProfile(m, userId, networkInfo, lookups, t) ==
    LET profile ==
            IF userId \in DOMAIN m.userNetworkProfiles THEN m.userNetworkProfiles[userId]
            ELSE [userId |-> userId, createdAt |-> t, ipHistory |-> <<>>,
                  deviceHistory |-> <<>>, locationHistory |-> <<>>]
        location == getLocation(networkInfo.ipAddress, lookups)
        located ==
            IF location # NoLocation
            THEN Append(profile.locationHistory, [location |-> location, timestamp |-> t])
            ELSE profile.locationHistory
    IN  [m EXCEPT !.userNetworkProfiles = MapSet(m.userNetworkProfiles, userId,
            [profile EXCEPT
                !.ipHistory = maintainHistorySize(
                    Append(@, [ip |-> networkInfo.ipAddress, timestamp |-> t])),
                !.deviceHistory = maintainHistorySize(
                    Append(@, [fingerprint |-> networkInfo.browserFingerprint,
                               timestamp |-> t])),
                !.locationHistory = maintainHistorySize(located)])]

\* analyzeIPBehavior up to its first await: the cluster of the address
joinIPCluster(m, userId, networkInfo, lookups, t) ==
    LET ipAddress == networkInfo.ipAddress
        ipCluster ==
            IF ipAddress \in DOMAIN m.ipClusters THEN m.ipClusters[ipAddress]
            ELSE [ipAddress |-> ipAddress, users |-> {}, firstSeen |-> t,
                  lastSeen |-> t, geoLocation |-> getLocation(ipAddress, lookups),
                  riskScore |-> 0]
    IN  [m EXCEPT !.ipClusters = MapSet(m.ipClusters, ipAddress,
            [ipCluster EXCEPT !.users = @ \cup {userId}, !.lastSeen = t])]

\* analyzeIPBehavior with >= in place of >
analyzeIPBehavior_inclusive(m, networkInfo, lookups) ==
    LET ipCluster == m.ipClusters[networkInfo.ipAddress]
    IN  [sharedUsers |-> Cardinality(ipCluster.users),
         isSharedIP |-> Cardinality(ipCluster.users) >= m.config.suspiciousNetworkThreshold,
         geolocation |-> ipCluster.geoLocation,
         isProxy |-> lookups = "proxy"]

\* the ipAnalysis of analyzeIPBehavior, read from the cluster just joined
analyzeIPBehavior(m, networkInfo, lookups) ==
    LET ipCluster == m.ipClusters[networkInfo.ipAddress]
    IN  [sharedUsers |-> Cardinality(ipCluster.users),
         isSharedIP |-> Cardinality(ipCluster.users) > m.config.suspiciousNetworkThreshold,
         geolocation |-> ipCluster.geoLocation,
         isProxy |-> lookups = "proxy"]

\* analyzeDeviceFingerprint: the device profile of the fingerprint
joinDeviceCluster(m, userId, networkInfo, t) ==
    LET fingerprint == networkInfo.browserFingerprint
        deviceProfile ==
            IF fingerprint \in DOMAIN m.deviceFingerprints
            THEN m.deviceFingerprints[fingerprint]
            ELSE [fingerprint |-> fingerprint, users |-> {}, firstSeen |-> t,
                  lastSeen |-> t]
    IN  [m EXCEPT !.deviceFingerprints = MapSet(m.deviceFingerprints, fingerprint,
            [deviceProfile EXCEPT !.users = @ \cup {userId}, !.lastSeen = t])]

analyzeDeviceFingerprint(m, networkInfo) ==
    LET deviceProfile == m.deviceFingerprints[networkInfo.browserFingerprint]
    IN  [fingerprint |-> networkInfo.browserFingerprint,
         sharedUsers |-> Cardinality(deviceProfile.users)]

\* detectProxyVPN: the answers of the proxy detector
detectProxyVPN(lookups) == [isProxy |-> lookups = "proxy"]

\* requiredSpeed > maxPossibleSpeed, with requiredSpeed = distance / (timeDiff / 3600000):
\* x / 0 is Infinity for x > 0 and 0 / 0 is NaN, which exceeds nothing; both
\* sides of distance * 3600000 > 1000 * timeDiff are divided by 1000
exceedsMaxPossibleSpeed(distance, timeDiff) ==
    IF timeDiff = 0 THEN distance > 0
    ELSE distance * (HourMs \div maxPossibleSpeed) > timeDiff

\* analyzeGeolocation, called after updateUserNetworkProfile
analyzeGeolocation(m, userId, networkInfo, lookups, t) ==
    LET currentLocation == getLocation(networkInfo.ipAddress, lookups)
        history ==
            IF userId \in DOMAIN m.userNetworkProfiles
            THEN m.userNetworkProfiles[userId].locationHistory ELSE <<>>
    IN  IF Len(history) > 0
        THEN LET lastLocation == history[Len(history)]
                 distance == calculateDistance(lastLocation.location, currentLocation)
                 timeDiff == t - lastLocation.timestamp
             IN  [currentLocation |-> currentLocation,
                  impossibleTravel |-> exceedsMaxPossibleSpeed(distance, timeDiff)]
        ELSE [currentLocation |-> currentLocation, impossibleTravel |-> FALSE]

\* analyzeUserNetwork: the profile is updated first, the five analyses are
\* started together, and a rejected one makes the call throw
analyzeUserNetwork(m, userId, networkData, lookups, t) ==
    LET networkInfo == extractNetworkInfo(networkData, t)
        profiled == updateUserNetworkProfile(m, userId, networkInfo, lookups, t)
        joined == joinDeviceCluster(joinIPCluster(profiled, userId, networkInfo, lookups, t),
                                    userId, networkInfo, t)
        analysis ==
            [ipAnalysis |-> analyzeIPBehavior(joined, networkInfo, lookups),
             deviceAnalysis |-> analyzeDeviceFingerprint(joined, networkInfo),
             proxyVPN |-> detectProxyVPN(lookups),
             geolocation |-> analyzeGeolocation(profiled, userId, networkInfo, lookups, t)]
        called == [joined EXCEPT
                     !.calls = @ + 1,
                     !.call = [op |-> "analyzeUserNetwork", userId |-> userId,
                               networkInfo |-> networkInfo, lookups |-> lookups,
                               time |-> t]]
    IN  IF lookups = "proxy_fails" \/ "string" \notin DOMAIN networkInfo.userAgent
        THEN [called EXCEPT !.result = [threw |-> TRUE]]
        ELSE [called EXCEPT !.result =
                [threw |-> FALSE, userId |-> userId, timestamp |-> t,
                 networkInfo |-> networkInfo, analysis |-> analysis,
                 fraudIndicators |-> analysis]]

\* async analyzeClusterUsers(cluster) { return []; }
analyzeClusterUsers(cluster) == <<>>
\* async analyzeDeviceUsers(deviceProfile) { return []; }
analyzeDeviceUsers(deviceProfile) == <<>>
\* async detectBehavioralClusters() { return []; }
detectBehavioralClusters == {}

\* detectFraudRings: the rings it returns
detectFraudRings(m) ==
    LET ipRings ==
            {[type |-> "ip_cluster", key |-> ipAddress,
              users |-> analyzeClusterUsers(m.ipClusters[ipAddress])] :
                ipAddress \in
                  {a \in DOMAIN m.ipClusters :
                     /\ Cardinality(m.ipClusters[a].users) >= m.config.minClusterSize
                     /\ Len(analyzeClusterUsers(m.ipClusters[a])) >= m.config.minClusterSize}}
        deviceRings ==
            {[type |-> "device_cluster", key |-> fingerprint,
              users |-> analyzeDeviceUsers(m.deviceFingerprints[fingerprint])] :
                fingerprint \in
                  {f \in DOMAIN m.deviceFingerprints :
                     /\ Cardinality(m.deviceFingerprints[f].users) >= m.config.minClusterSize
                     /\ Len(analyzeDeviceUsers(m.deviceFingerprints[f])) >= m.config.minClusterSize}}
    IN  [m EXCEPT !.calls = @ + 1,
                  !.call = [op |-> "detectFraudRings"],
                  !.fraudRings = ipRings \cup deviceRings \cup detectBehavioralClusters]

NoNetwork ==
    NewNetworkAnalyzer(NetworkConfig(defaultSuspiciousNetworkThreshold, defaultMinClusterSize))

\* neither analyzer has been used
NoAnalyzers ==
    /\ biometrics = NoBiometrics
    /\ network = NoNetwork

\* the monitor constructed with configuration cfg, at 'monitorReady'
Constructed(cfg) ==
    /\ now = StartTime
    /\ ticks = 0
    /\ config = cfg
    /\ eventStream = NewMonitor(cfg).eventStream
    /\ activeUsers = NewMonitor(cfg).activeUsers
    /\ riskScores = NewMonitor(cfg).riskScores
    /\ alertQueue = NewMonitor(cfg).alertQueue
    /\ processedEvents = NewMonitor(cfg).processedEvents
    /\ alertsSent = NewMonitor(cfg).alertsSent
    /\ fraudAlerts = NewMonitor(cfg).fraudAlerts
    /\ webhookCalls = NewMonitor(cfg).webhookCalls
    /\ connection = Connected
    /\ lastCall = Call("constructor", StartTime, NoEvent, {}, ZeroScore)
    /\ timers = StartLoops(StartTime)

----------------------------------------------------------------------------
(* Spec: the monitor fed by the stream, with its two timers *)

Init ==
    /\ \E cfg \in Configs : Constructed(cfg)
    /\ budget = MaxSteps
    /\ NoAnalyzers
    /\ replica = NoReplica

Ingest == \E e \in FeedEvents : ProcessIncomingEvent(e, {})

FastSweep == CalculateAggregateRisks({})

Advance == \E step \in TickSteps : Tick(step)

Next ==
    \/ Ingest
    \/ FastSweep
    \/ CleanupOldData
    \/ Advance

Spec == Init /\ [][Next]_vars

----------------------------------------------------------------------------
(* SpecFaults: one user's events, evaluated while calculators throw *)

InitFaults ==
    /\ Constructed(Config(defaultAlertThreshold))
    /\ budget = MaxFaultSteps
    /\ NoAnalyzers
    /\ replica = NoReplica

IngestFaulty ==
    \E e \in Payloads("user_001", 0), failed \in FailureSets :
        ProcessIncomingEvent(e, failed)

FastSweepFaulty == \E failed \in FailureSets : CalculateAggregateRisks(failed)

NextFaults ==
    \/ IngestFaulty
    \/ FastSweepFaulty
    \/ Advance

SpecFaults == InitFaults /\ [][NextFaults]_vars

----------------------------------------------------------------------------
(* SpecScenario: one user places bets of 2000, ten seconds apart or less *)

scenarioBet == RawEvent("user_001", "bet_placed", 2000, 0, 0)

InitScenario ==
    /\ Constructed(Config(defaultAlertThreshold))
    /\ budget = MaxScenarioSteps
    /\ NoAnalyzers
    /\ replica = NoReplica

PlaceBet == ProcessIncomingEvent(scenarioBet, {})

TenSeconds == Tick(10000)

NextScenario ==
    \/ PlaceBet
    \/ TenSeconds

SpecScenario == InitScenario /\ [][NextScenario]_vars

----------------------------------------------------------------------------
(* SpecOrder: the monitor and a replica ingest one set of bets of one user, *)
(* each in an order of its own                                              *)

OrderTimes == {StartTime - i * 45000 : i \in 0..(MaxOrderBets - 1)}

OrderBets == {RawEvent("user_001", "bet_placed", 100, 0, ts) : ts \in OrderTimes}

InitOrder ==
    /\ Constructed(Config(defaultAlertThreshold))
    /\ budget = MaxOrderBets
    /\ NoAnalyzers
    /\ \E bets \in (SUBSET OrderBets) \ {{}} :
          replica = [m |-> NewMonitor(Config(defaultAlertThreshold)),
                     pending |-> [monitor |-> bets, replica |-> bets]]

MonitorIngests ==
    \E e \in replica.pending.monitor :
        /\ LET r == processIncomingEvent(Self, e, now, {})
           IN  /\ Install(r.m)
               /\ lastCall' = Call("processIncomingEvent", now, r.event, {}, r.riskScore)
        /\ replica' = [replica EXCEPT !.pending.monitor = @ \ {e}]
        /\ UNCHANGED <<now, timers, ticks, budget, biometrics, network, connection>>

ReplicaIngests ==
    \E e \in replica.pending.replica :
        /\ replica' = [replica EXCEPT
                          !.m = processIncomingEvent(@, e, now, {}).m,
                          !.pending.replica = @ \ {e}]
        /\ UNCHANGED <<now, config, eventStream, activeUsers, riskScores, alertQueue,
                       processedEvents, alertsSent, fraudAlerts, webhookCalls,
                       connection, lastCall, timers, ticks, budget, biometrics, network>>

NextOrder ==
    \/ MonitorIngests
    \/ ReplicaIngests

SpecOrder == InitOrder /\ [][NextOrder]_vars

----------------------------------------------------------------------------
(* SpecLifecycle: the connection closes and reopens, and stop() is called *)

\* this.websocket.close(): an open or connecting socket starts closing
closeSocket(c) ==
    [c EXCEPT !.websocket = IF @ \in {"open", "connecting"} THEN "closing" ELSE @]

\* stop(): the monitor and the connection after the call
stop(m, c, t) ==
    [m          |-> cleanupOldData(m, t),
     connection |-> [closeSocket([c EXCEPT !.isMonitoring = FALSE])
                        EXCEPT !.stopped = TRUE]]

\* the 'close' handler: setTimeout(() => this.setupWebSocketConnection(), 5000)
onClose(c, t) ==
    [c EXCEPT !.websocket = "closed", !.isMonitoring = FALSE,
              !.reconnectAt = t + reconnectDelay]

\* setupWebSocketConnection: this.websocket = new WebSocket(streamUrl)
setupWebSocketConnection(c) ==
    [c EXCEPT !.websocket = "connecting", !.reconnectAt = 0]

\* the 'open' handler
onOpen(c) == [c EXCEPT !.websocket = "open", !.isMonitoring = TRUE]

\* stop() is called
Stop ==
    /\ ~connection.stopped
    /\ LET r == stop(Self, connection, now)
       IN  /\ Install(r.m)
           /\ connection' = r.connection
    /\ lastCall' = Call("stop", now, NoEvent, {}, ZeroScore)
    /\ UNCHANGED <<now, timers, ticks, budget, biometrics, network, replica>>

\* the socket emits 'close': the closing handshake ended, the connection
\* attempt failed, or the server closed the stream
SocketClose ==
    /\ connection.websocket \in {"closing", "connecting", "open"}
    /\ connection' = onClose(connection, now)
    /\ UNCHANGED <<now, config, eventStream, activeUsers, riskScores, alertQueue,
                   processedEvents, alertsSent, fraudAlerts, webhookCalls,
                   lastCall, timers, ticks, budget, biometrics, network, replica>>

\* the timeout set by the 'close' handler fires
Reconnect ==
    /\ connection.reconnectAt # 0
    /\ now >= connection.reconnectAt
    /\ connection' = setupWebSocketConnection(connection)
    /\ UNCHANGED <<now, config, eventStream, activeUsers, riskScores, alertQueue,
                   processedEvents, alertsSent, fraudAlerts, webhookCalls,
                   lastCall, timers, ticks, budget, biometrics, network, replica>>

\* initializeMonitoring after its await of the first setupWebSocketConnection:
\* the promise was resolved or rejected
settleSetup(c) == [c EXCEPT !.initializing = FALSE]

\* the socket emits 'open'; resolve() lets initializeMonitoring go on to start
\* the two loops if it is the first connection, and does nothing otherwise
SocketOpen ==
    /\ connection.websocket = "connecting"
    /\ connection' = settleSetup(onOpen(connection))
    /\ timers' = IF connection.initializing THEN StartLoops(now) ELSE timers
    /\ UNCHANGED <<now, config, eventStream, activeUsers, riskScores, alertQueue,
                   processedEvents, alertsSent, fraudAlerts, webhookCalls,
                   lastCall, ticks, budget, biometrics, network, replica>>

\* the connecting socket emits 'error': reject(error) takes initializeMonitoring
\* to its catch block if it is the first connection; the socket closes next
SocketError ==
    /\ connection.websocket = "connecting"
    /\ connection' = [settleSetup(connection) EXCEPT !.websocket = "closing"]
    /\ UNCHANGED <<now, config, eventStream, activeUsers, riskScores, alertQueue,
                   processedEvents, alertsSent, fraudAlerts, webhookCalls,
                   lastCall, timers, ticks, budget, biometrics, network, replica>>

\* the open socket emits 'message'
Message ==
    /\ connection.websocket = "open"
    /\ \E e \in Payloads("user_001", 0) : ProcessIncomingEvent(e, {})

LifecycleSteps == {reconnectDelay, cleanupInterval}

Elapse == \E step \in LifecycleSteps : Tick(step)

InitLifecycle ==
    /\ Constructed(Config(defaultAlertThreshold))
    /\ budget = MaxLifecycleSteps
    /\ NoAnalyzers
    /\ replica = NoReplica

NextLifecycle ==
    \/ Message
    \/ Stop
    \/ SocketClose
    \/ Reconnect
    \/ SocketOpen
    \/ FastSweep
    \/ CleanupOldData
    \/ Elapse

SpecLifecycle == InitLifecycle /\ [][NextLifecycle]_vars

----------------------------------------------------------------------------
(* SpecBuffer: a monitor configured with a small maxEventsPerWindow *)

BufferConfig ==
    [Config(defaultAlertThreshold) EXCEPT !.maxEventsPerWindow = MaxBuffer]

InitBuffer ==
    /\ Constructed(BufferConfig)
    /\ budget = MaxBuffer + 1
    /\ NoAnalyzers
    /\ replica = NoReplica

IngestStamped == \E u \in FeedUsers : \E e \in Payloads(u, 0) : ProcessIncomingEvent(e, {})

NextBuffer ==
    \/ IngestStamped
    \/ Advance

SpecBuffer == InitBuffer /\ [][NextBuffer]_vars

----------------------------------------------------------------------------
(* SpecMalformed: the feed also delivers events that lack userId or type *)

\* a field the JSON of the event does not have reads as undefined: "" here
Absent == ""

MalformedEvents ==
    {RawEvent(Absent, "bet_placed", 2000, 0, 0),
     RawEvent("user_001", Absent, 0, 0, 0),
     RawEvent(Absent, Absent, 0, 0, 0)}

InitMalformed ==
    /\ Constructed(Config(defaultAlertThreshold))
    /\ budget = MaxMalformedSteps
    /\ NoAnalyzers
    /\ replica = NoReplica

IngestMalformed == \E e \in MalformedEvents : ProcessIncomingEvent(e, {})

NextMalformed ==
    \/ IngestMalformed
    \/ IngestStamped

SpecMalformed == InitMalformed /\ [][NextMalformed]_vars

----------------------------------------------------------------------------
(* SpecWebhook: alerts are posted to config.alertWebhook *)

\* what the fetch of sendWebhookAlert settles with
WebhookResponses == {"ok", "http_error", "network_error"}

\* mutant: a failed delivery is thrown on to the caller
sendWebhookAlert_rethrows(response) ==
    IF response = "ok" THEN "resolved" ELSE "rejected"

\* sendWebhookAlert after its await: how its promise settles when the fetch
\* has settled with response; every error lands in the catch block
sendWebhookAlert(response) ==
    CASE response = "ok"            -> "resolved"
      [] response = "http_error"    -> "resolved"
      [] response = "network_error" -> "resolved"

\* triggerAlert after its await for the i-th webhook call
resumeTriggerAlert(m, i) ==
    LET call    == m.webhookCalls[i]
        resumed == [m EXCEPT !.webhookCalls[i].resumed = TRUE]
    IN  IF sendWebhookAlert(call.response) = "resolved"
        THEN emitFraudAlert(resumed, call.alert)
        ELSE resumed

\* the webhook answers the i-th call, or the connection to it fails
WebhookResponds(i, response) ==
    /\ webhookCalls[i].response = "pending"
    /\ webhookCalls' = [webhookCalls EXCEPT ![i].response = response]
    /\ UNCHANGED <<now, config, eventStream, activeUsers, riskScores, alertQueue,
                   processedEvents, alertsSent, fraudAlerts, connection,
                   lastCall, timers, ticks, budget, biometrics, network, replica>>

\* the event loop resumes the triggerAlert that awaits the i-th call
ResumeTriggerAlert(i) ==
    /\ webhookCalls[i].response # "pending"
    /\ ~webhookCalls[i].resumed
    /\ Install(resumeTriggerAlert(Self, i))
    /\ lastCall' = Call(IF sendWebhookAlert(webhookCalls[i].response) = "resolved"
                        THEN "triggerAlert" ELSE "unhandledRejection",
                        now, webhookCalls[i].alert.event, {},
                        webhookCalls[i].alert.riskScore)
    /\ UNCHANGED <<now, timers, ticks, budget, biometrics, network, replica, connection>>

WebhookConfig(alertWebhook) ==
    [Config(Frac(1, 4)) EXCEPT !.alertWebhook = alertWebhook]

InitWebhook ==
    /\ \E alertWebhook \in BOOLEAN : Constructed(WebhookConfig(alertWebhook))
    /\ budget = MaxWebhookSteps
    /\ NoAnalyzers
    /\ replica = NoReplica

Respond ==
    \E i \in 1..Len(webhookCalls), response \in WebhookResponses :
        WebhookResponds(i, response)

Resume == \E i \in 1..Len(webhookCalls) : ResumeTriggerAlert(i)

NextWebhook ==
    \/ IngestStamped
    \/ Respond
    \/ Resume

SpecWebhook == InitWebhook /\ [][NextWebhook]_vars

\* the event loop runs every continuation that is ready; nothing obliges the
\* webhook to answer
SpecWebhookLive == SpecWebhook /\ WF_vars(Resume)

----------------------------------------------------------------------------
(* SpecBands: triggerAlert called with every score in hundredths *)

BandScores == {Ratio(k, 100) : k \in 0..100}

InitBands ==
    /\ Constructed(Config(defaultAlertThreshold))
    /\ budget = MaxBandAlerts
    /\ NoAnalyzers
    /\ replica = NoReplica

\* triggerAlert(event, riskScore) for a user the monitor has not seen
TriggerAlert ==
    /\ alertsSent < budget
    /\ \E riskScore \in BandScores :
          LET event == stamped(scenarioBet, now)
          IN  /\ Install(triggerAlert(Self, event, riskScore, now))
              /\ lastCall' = Call("triggerAlert", now, event, {}, riskScore)
    /\ UNCHANGED <<now, timers, ticks, budget, biometrics, network, replica, connection>>

NextBands == TriggerAlert

SpecBands == InitBands /\ [][NextBands]_vars

----------------------------------------------------------------------------
(* SpecReevaluate: calculateRealTimeRisk called again for events ingested *)

\* the events calculateRealTimeRisk is called with: those in the stream and
\* one of a user the monitor has no profile of
StreamEvents ==
    {eventStream[i] : i \in 1..Len(eventStream)}
    \cup {stamped(RawEvent("user_003", "login", 0, 1, 0), now)}

\* calculateRealTimeRisk(event)
CalculateRealTimeRisk(event, failed) ==
    /\ LET r == calculateRealTimeRisk(Self, event, failed)
       IN  /\ Install(r.m)
           /\ lastCall' = Call("calculateRealTimeRisk", now, event, failed, r.score)
    /\ UNCHANGED <<now, timers, ticks, budget, biometrics, network, replica, connection>>

InitReevaluate ==
    /\ Constructed(Config(defaultAlertThreshold))
    /\ budget = MaxReevaluateSteps
    /\ NoAnalyzers
    /\ replica = NoReplica

Reevaluate ==
    \E event \in StreamEvents, failed \in {{}, {"location"}} :
        CalculateRealTimeRisk(event, failed)

NextReevaluate ==
    \/ Message
    \/ Reevaluate

SpecReevaluate == InitReevaluate /\ [][NextReevaluate]_vars

----------------------------------------------------------------------------
(* SpecLocation: location changes of two users, some delivered late *)

LocationChanges ==
    {RawEvent(u, "location_change", 0, 0, ts) :
        u \in FeedUsers, ts \in {0} \cup {now - lag : lag \in Lags}}

LocationSteps == {velocityTimeWindow, rapidLocationWindow}

InitLocation ==
    /\ Constructed(Config(defaultAlertThreshold))
    /\ budget = MaxLocationSteps
    /\ NoAnalyzers
    /\ replica = NoReplica

ChangeLocation == \E e \in LocationChanges : ProcessIncomingEvent(e, {})

Wait == \E step \in LocationSteps : Tick(step)

NextLocation ==
    \/ ChangeLocation
    \/ Wait

SpecLocation == InitLocation /\ [][NextLocation]_vars

----------------------------------------------------------------------------
(* SpecStartup: the monitor from its constructor on, before the first      *)
(* connection is established                                               *)

\* the constructor has returned: initializeMonitoring awaits the first
\* setupWebSocketConnection and no loop has been started
Connecting ==
    [websocket |-> "connecting", isMonitoring |-> FALSE, reconnectAt |-> 0,
     stopped |-> FALSE, initializing |-> TRUE]

NoTimers == EmptyMap

InitStartup ==
    /\ now = StartTime
    /\ ticks = 0
    /\ config = Config(defaultAlertThreshold)
    /\ eventStream = <<>>
    /\ activeUsers = EmptyMap
    /\ riskScores = EmptyMap
    /\ alertQueue = <<>>
    /\ processedEvents = 0
    /\ alertsSent = 0
    /\ fraudAlerts = <<>>
    /\ webhookCalls = <<>>
    /\ connection = Connecting
    /\ timers = NoTimers
    /\ lastCall = Call("constructor", StartTime, NoEvent, {}, ZeroScore)
    /\ budget = MaxStartupSteps
    /\ NoAnalyzers
    /\ replica = NoReplica

NextStartup ==
    \/ SocketOpen
    \/ SocketError
    \/ SocketClose
    \/ Reconnect
    \/ Message
    \/ FastSweep
    \/ CleanupOldData
    \/ Elapse

SpecStartup == InitStartup /\ [][NextStartup]_vars

----------------------------------------------------------------------------
(* SpecBiometrics: sessions of two users are started and ended *)

\* what calculateSimilarity can give for one modality
Similarities == {20, 90}
Measurements == [ModalitySet -> Similarities]

InitBiometrics ==
    /\ Constructed(Config(defaultAlertThreshold))
    /\ budget = MaxSessions
    /\ replica = NoReplica
    /\ biometrics = NoBiometrics
    /\ network = NoNetwork

StartSession ==
    \E userId \in Users :
        /\ biometrics.sessions < budget
        /\ biometrics' = startSession(biometrics, userId, now)
        /\ UNCHANGED <<monitorVars, network>>

EndSession ==
    \E userId \in DOMAIN biometrics.currentSession, measured \in Measurements,
       outlier \in BOOLEAN :
        /\ biometrics' = endSession(biometrics, userId, measured, outlier, now)
        /\ UNCHANGED <<monitorVars, network>>

NextBiometrics ==
    \/ StartSession
    \/ EndSession

SpecBiometrics == InitBiometrics /\ [][NextBiometrics]_vars

----------------------------------------------------------------------------
(* SpecAuthenticity: determineAuthenticity applied to one composite score  *)
(* under one threshold                                                     *)

Thresholds == {similarityThreshold, 50, 10}
Scores == {[num |-> k, den |-> ScoreGrid] : k \in 0..ScoreGrid}

InitAuthenticity ==
    /\ Constructed(Config(defaultAlertThreshold))
    /\ budget = 0
    /\ replica = NoReplica
    /\ \E threshold \in Thresholds, score \in Scores :
          biometrics = [NewAnalyzer(BiometricsConfig(threshold)) EXCEPT !.score = score]
    /\ network = NoNetwork

DetermineAuthenticity ==
    /\ biometrics.report = NoReport
    /\ biometrics' =
          [biometrics EXCEPT !.report =
              [userId |-> "", sessionId |-> 0,
               compositeBiometricScore |-> biometrics.score,
               isAuthentic |-> determineAuthenticity(biometrics, biometrics.score)]]
    /\ UNCHANGED <<monitorVars, network>>

NextAuthenticity == DetermineAuthenticity

SpecAuthenticity == InitAuthenticity /\ [][NextAuthenticity]_vars

----------------------------------------------------------------------------
(* SpecNetwork: observations of three users from two cities and a private  *)
(* address, with lookups that can fail, and time passing between them      *)

NetworkUsers == {"user_001", "user_002", "user_003"}

Desktop ==
    << <<"userAgent", Str("Mozilla/5.0")>>,
       <<"screenResolution", Str("1920x1080")>>,
       <<"timezone", Str("Europe/London")>>,
       <<"acceptLanguage", Str("en-GB")>>,
       <<"platformInfo", Str("Linux x86_64")>>,
       <<"colorDepth", Num(24)>>,
       <<"plugins", Str("pdf")>>,
       <<"cookiesEnabled", Bool(TRUE)>>,
       <<"doNotTrack", JsNull>> >>

\* the same device with another screen
With(networkData, key, value) ==
    [i \in 1..Len(networkData) |->
        IF networkData[i][1] = key THEN <<key, value>> ELSE networkData[i]]

Phone == With(Desktop, "screenResolution", Str("390x844"))

From(ipAddress, device) == << <<"ipAddress", Str(ipAddress)>> >> \o device

NetworkPayloads ==
    {From("81.2.69.142", Desktop), From("72.229.28.185", Desktop), From("10.0.0.1", Phone)}

\* how the lookups of one call turn out
Lookups == {"clean", "proxy", "geolocation_fails", "proxy_fails"}

\* a minute, and six hours
TravelSteps == {HourMs \div 60, 6 * HourMs}

InitNetwork ==
    /\ Constructed(Config(defaultAlertThreshold))
    /\ budget = MaxNetworkSteps
    /\ replica = NoReplica
    /\ biometrics = NoBiometrics
    /\ network = NewNetworkAnalyzer(NetworkConfig(2, defaultMinClusterSize))

AnalyzeUserNetwork ==
    \E userId \in NetworkUsers, networkData \in NetworkPayloads, lookups \in Lookups :
        /\ network.calls + ticks < budget
        /\ network' = analyzeUserNetwork(network, userId, networkData, lookups, now)
        /\ UNCHANGED <<monitorVars, biometrics>>

Travel ==
    /\ network.calls + ticks < budget
    /\ \E step \in TravelSteps : Tick(step)

NextNetwork ==
    \/ AnalyzeUserNetwork
    \/ Travel

SpecNetwork == InitNetwork /\ [][NextNetwork]_vars

\* the clock advances whatever the callers do; the analyzer sets no timer of
\* its own and nothing obliges a caller to analyse again
SpecNetworkLive == SpecNetwork /\ WF_vars(Travel)

----------------------------------------------------------------------------
(* SpecRings: observations whose lookups succeed, and the batch scan *)

InitRings ==
    /\ Constructed(Config(defaultAlertThreshold))
    /\ budget = MaxRingSteps
    /\ replica = NoReplica
    /\ biometrics = NoBiometrics
    /\ network = NoNetwork

Observe ==
    \E userId \in NetworkUsers, networkData \in NetworkPayloads :
        /\ network.calls < budget
        /\ network' = analyzeUserNetwork(network, userId, networkData, "clean", now)
        /\ UNCHANGED <<monitorVars, biometrics>>

DetectFraudRings ==
    /\ network.calls < budget
    /\ network' = detectFraudRings(network)
    /\ UNCHANGED <<monitorVars, biometrics>>

NextRings ==
    \/ Observe
    \/ DetectFraudRings

SpecRings == InitRings /\ [][NextRings]_vars

----------------------------------------------------------------------------
(* SpecFingerprint: generateBrowserFingerprint applied to two payloads     *)

FieldValues == {Undefined, JsNull, NaN, Num(24), Str("24")}

Reversed(networkData) ==
    [i \in 1..Len(networkData) |-> networkData[Len(networkData) + 1 - i]]

FingerprintPayloads ==
    {Desktop, Reversed(Desktop)}
        \cup {With(Desktop, fingerprintKeys[i][2], value) :
                i \in 1..Len(fingerprintKeys), value \in FieldValues}

InitFingerprint ==
    /\ Constructed(Config(defaultAlertThreshold))
    /\ budget = 0
    /\ replica = NoReplica
    /\ biometrics = NoBiometrics
    /\ \E first \in FingerprintPayloads, second \in FingerprintPayloads :
          network = [NoNetwork EXCEPT !.payloads = <<first, second>>]

GenerateBrowserFingerprint ==
    /\ Len(network.fingerprints) < Len(network.payloads)
    /\ network' =
          [network EXCEPT !.fingerprints =
              Append(@, generateBrowserFingerprint(
                            network.payloads[Len(network.fingerprints) + 1]))]
    /\ UNCHANGED <<monitorVars, biometrics>>

NextFingerprint == GenerateBrowserFingerprint

SpecFingerprint == InitFingerprint /\ [][NextFingerprint]_vars

----------------------------------------------------------------------------
(* SpecSweep: one user's events, some stamped two minutes back, under a    *)
(* low alert threshold, with the fast sweep three minutes later            *)

SweepConfig == Config(Frac(1, 10))

SweepSteps == {3 * velocityTimeWindow}

InitSweep ==
    /\ Constructed(SweepConfig)
    /\ budget = MaxSweepSteps
    /\ NoAnalyzers
    /\ replica = NoReplica

IngestOne ==
    \E ts \in {0} \cup {now - lag : lag \in Lags} :
        \E e \in Payloads("user_001", ts) : ProcessIncomingEvent(e, {})

Later == \E step \in SweepSteps : Tick(step)

NextSweep ==
    \/ IngestOne
    \/ Later
    \/ FastSweep

SpecSweep == InitSweep /\ [][NextSweep]_vars

----------------------------------------------------------------------------
(* SpecCollect: one session of user_001 collecting samples of the four     *)
(* modalities in any interleaving, under minDataPoints 5 (a buffer of 15), *)
(* and collect calls for user_002, who has no session.  A sample is the    *)
(* ordinal of the input event within its modality                          *)

CollectConfig == [BiometricsConfig(similarityThreshold) EXCEPT !.minDataPoints = 5]

CollectUsers == {"user_001", "user_002"}

RECURSIVE eventsUpTo(_)
\* the input events of Modalities[1..i] dispatched so far
eventsUpTo(i) ==
    IF i = 0 THEN 0 ELSE biometrics.events[Modalities[i]] + eventsUpTo(i - 1)

InitCollect ==
    /\ Constructed(Config(defaultAlertThreshold))
    /\ budget = 1
    /\ replica = NoReplica
    /\ biometrics = NewAnalyzer(CollectConfig)
    /\ network = NoNetwork

OpenSession ==
    /\ biometrics.sessions < budget
    /\ biometrics' = startSession(biometrics, "user_001", now)
    /\ UNCHANGED <<monitorVars, network>>

\* the next input event of user_001's page is handed to collect as its
\* ordinal; a call for user_002 carries the first event of another page
Collect ==
    \E userId \in CollectUsers, modality \in ModalitySet :
        LET dispatched == IF userId = "user_001"
                          THEN [biometrics.events EXCEPT ![modality] = @ + 1]
                          ELSE biometrics.events
        IN  /\ eventsUpTo(Len(Modalities)) < MaxSamples
            /\ biometrics.sessions > 0 \/ userId # "user_001"
            /\ biometrics' = [collect(biometrics, userId, modality,
                                      IF userId = "user_001" THEN dispatched[modality] ELSE 1)
                                EXCEPT !.events = dispatched]
            /\ UNCHANGED <<monitorVars, network>>

NextCollect ==
    \/ OpenSession
    \/ Collect

SpecCollect == InitCollect /\ [][NextCollect]_vars

----------------------------------------------------------------------------
(* SpecEndSession: sessions of user_001 under minDataPoints 2, with a few  *)
(* samples, each ended by an endSession that awaits its analysis while     *)
(* startSession and collect calls go on                                    *)

EndSessionConfig ==
    [BiometricsConfig(similarityThreshold) EXCEPT !.minDataPoints = 2]

InitEndSession ==
    /\ Constructed(Config(defaultAlertThreshold))
    /\ budget = MaxEndSessions
    /\ replica = NoReplica
    /\ biometrics = NewAnalyzer(EndSessionConfig)
    /\ network = NoNetwork

CollectSome ==
    \E modality \in ModalitySet :
        /\ eventsUpTo(Len(Modalities)) < MaxEndSamples
        /\ biometrics.sessions > 0
        /\ biometrics' = [collect(biometrics, "user_001", modality,
                                  biometrics.events[modality] + 1)
                            EXCEPT !.events[modality] = @ + 1]
        /\ UNCHANGED <<monitorVars, network>>

SuspendEndSession ==
    /\ "user_001" \in DOMAIN biometrics.currentSession
    /\ "user_001" \notin DOMAIN biometrics.ending
    /\ biometrics' = suspendEndSession(biometrics, "user_001")
    /\ UNCHANGED <<monitorVars, network>>

\* the similarity of a modality without samples is that of the zero vector
ResumeEndSession ==
    \E measured \in Measurements, outlier \in BOOLEAN :
        LET session == biometrics.ending["user_001"]
            similarity == [modality \in ModalitySet |->
                              IF Len(session[dataField[modality]]) = 0
                              THEN 0 ELSE measured[modality]]
        IN  /\ "user_001" \in DOMAIN biometrics.ending
            /\ biometrics' = resumeEndSession(biometrics, "user_001", similarity, outlier, now)
            /\ UNCHANGED <<monitorVars, network>>

NextEndSession ==
    \/ OpenSession
    \/ CollectSome
    \/ SuspendEndSession
    \/ ResumeEndSession

SpecEndSession == InitEndSession /\ [][NextEndSession]_vars

----------------------------------------------------------------------------
(* SpecHistory: more than maxHistorySize analyses of one user, from a      *)
(* public address on a desktop and now and then from a private address,    *)
(* which has no location, on a phone                                       *)

HomeAddress == From("81.2.69.142", Desktop)
OtherAddress == From("10.0.0.1", Phone)

\* the entries of an ipHistory that name the address of networkData
EntriesFrom(userId, networkData) ==
    IF userId \notin DOMAIN network.userNetworkProfiles THEN 0
    ELSE LET ipHistory == network.userNetworkProfiles[userId].ipHistory
         IN  Cardinality({i \in 1..Len(ipHistory) :
                            ipHistory[i].ip = Field(networkData, "ipAddress")})

InitHistory ==
    /\ Constructed(Config(defaultAlertThreshold))
    /\ budget = MaxHistorySteps
    /\ replica = NoReplica
    /\ biometrics = NoBiometrics
    /\ network = NoNetwork

AnalyzeAgain ==
    \E networkData \in {HomeAddress, OtherAddress} :
        /\ network.calls < budget
        /\ networkData = OtherAddress => EntriesFrom("user_001", OtherAddress) < MaxOtherAddress
        /\ network' = analyzeUserNetwork(network, "user_001", networkData, "clean", now)
        /\ UNCHANGED <<monitorVars, biometrics>>

NextHistory == AnalyzeAgain

SpecHistory == InitHistory /\ [][NextHistory]_vars

----------------------------------------------------------------------------
(* SpecRetention: one user's events, some stamped two minutes back, and    *)
(* the slow sweep when its timer is due                                    *)

RetentionSteps == {velocityTimeWindow, 4 * velocityTimeWindow}

InitRetention ==
    /\ Constructed(Config(defaultAlertThreshold))
    /\ budget = MaxRetentionSteps
    /\ NoAnalyzers
    /\ replica = NoReplica

Pass == \E step \in RetentionSteps : Tick(step)

NextRetention ==
    \/ IngestOne
    \/ Pass
    \/ CleanupOldData

SpecRetention == InitRetention /\ [][NextRetention]_vars

----------------------------------------------------------------------------
(* Properties of the alert decision and of the composite score *)

LastEvent == lastCall.event
LastUser == lastCall.event.userId
\* the handler named op has just returned: no time has passed since
Returned(op) == lastCall.op = op /\ lastCall.time = now
Ingested == Returned("processIncomingEvent")

\* C1: every event processed by processIncomingEvent appends exactly one
\* alert to alertQueue, counted in alertsSent, when the composite score stored
\* for it is >= config.alertThreshold, and appends and counts nothing
\* otherwise; an earlier alert or an earlier quiet evaluation changes nothing.
C1_AlertIffAtThreshold ==
    [][processedEvents' = processedEvents + 1 =>
         LET u == lastCall'.event.userId
             score == riskScores'[u].score
             n == Len(alertQueue)
         IN  IF GE(score, config.alertThreshold)
             THEN /\ alertsSent' = alertsSent + 1
                  /\ Len(alertQueue') = n + 1
                  /\ SubSeq(alertQueue', 1, n) = alertQueue
                  /\ alertQueue'[n + 1].userId = u
                  /\ alertQueue'[n + 1].riskScore = score
                  /\ alertQueue'[n + 1].event = lastCall'.event
             ELSE /\ alertsSent' = alertsSent
                  /\ alertQueue' = alertQueue]_vars

\* three events processed: one evaluation stayed below the threshold and two
\* reached it, the last one alerting again
C1_Witness ==
    /\ Ingested
    /\ processedEvents = 3
    /\ alertsSent = 2
    /\ Len(alertQueue) = 2
    /\ alertQueue[2].event = LastEvent
    /\ GE(lastCall.riskScore, config.alertThreshold)

InUnitInterval(score) == score.den > 0 /\ 0 <= score.num /\ score.num <= score.den

\* C2: after any sequence of ingested events and sweeps, the score returned by
\* calculateRealTimeRisk and every score stored in riskScores lies in [0,1].
C2_ScoreInUnitInterval ==
    /\ InUnitInterval(lastCall.riskScore)
    /\ \A u \in DOMAIN riskScores : InUnitInterval(riskScores[u].score)

\* a fast sweep has re-evaluated a user's events and stored a positive score
C2_Witness ==
    /\ Returned("calculateAggregateRisks")
    /\ \E u \in DOMAIN riskScores :
          /\ riskScores[u].score.num > 0
          /\ u \in DOMAIN activeUsers
          /\ Len(activeUsers[u].riskHistory) > 0

----------------------------------------------------------------------------
(* Properties of calculateRealTimeRisk under calculator failures *)

RECURSIVE SumOver(_, _)
SumOver(S, f) ==
    IF S = {} THEN 0
    ELSE LET x == CHOOSE x \in S : TRUE IN f[x] + SumOver(S \ {x}, f)

\* score is the weighted mean of the calculators outside failed for event
IsMeanOfReturned(score, event, failed) ==
    LET returned == CalculatorNames \ failed
        result == [c \in returned |-> calculator(c, Self, event)]
        weights == SumOver(returned, [c \in returned |-> result[c].weight])
        risks == SumOver(returned,
                     [c \in returned |-> result[c].risk * result[c].weight])
    IN  IF weights > 0
        THEN score.num * (RiskUnit * weights) = risks * score.den
        ELSE score = ZeroScore

\* C3: when some calculators throw, the evaluation of the event completes,
\* and the composite returned and stored is sum(risk*weight)/sum(weight) over
\* exactly the calculators that returned, in processIncomingEvent and in the
\* re-evaluation by the fast sweep.
C3_FailedCalculatorsExcluded ==
    /\ Ingested =>
          /\ LastUser \in DOMAIN riskScores
          /\ riskScores[LastUser].timestamp = LastEvent.timestamp
          /\ riskScores[LastUser].score = lastCall.riskScore
          /\ IsMeanOfReturned(lastCall.riskScore, LastEvent, lastCall.failed)
    /\ Returned("calculateAggregateRisks") =>
          \A u \in DOMAIN activeUsers :
              LET recent == recentEventsOf(Self, u, now)
              IN  Len(recent) > 0 =>
                     /\ u \in DOMAIN riskScores
                     /\ riskScores[u].timestamp = recent[Len(recent)].timestamp
                     /\ IsMeanOfReturned(riskScores[u].score, recent[Len(recent)],
                                         lastCall.failed)

\* an event was evaluated while the location calculator threw and the other
\* four returned, with a positive composite
C3_Witness ==
    /\ Ingested
    /\ lastCall.failed = {"location"}
    /\ lastCall.riskScore.num > 0
    /\ processedEvents >= 2

\* C4: when every calculator fails for an event, the result stored is 0 and
\* differs from every result that calculators which succeeded with zero risk
\* store for the same event.
C4_AllFailedIsFlagged ==
    (Ingested /\ lastCall.failed = CalculatorNames) =>
        /\ riskScores[LastUser].score = ZeroScore
        /\ \A failed \in FailureSets \ {CalculatorNames} :
              LET r == calculateRealTimeRisk(Self, LastEvent, failed)
              IN  r.score = ZeroScore => r.m.riskScores[LastUser] # riskScores[LastUser]

\* C5: the location calculator returns weight 0.20 for every event, with risk
\* min(locationChanges/3, 1) for a location_change and 0 otherwise, so the
\* weights of the five calculators sum to 1.0 whatever the event type.
C5_LocationWeightIsOneFifth ==
    Ingested =>
        LET r == calculateLocationRisk(Self, LastEvent)
            changes == activeUsers[LastUser].behaviorMetrics.locationChanges
        IN  /\ r.weight = 20
            /\ r.risk = IF LastEvent.type = "location_change"
                        THEN Min((changes * RiskUnit) \div locationDivisor, RiskUnit)
                        ELSE 0
            /\ SumOver(CalculatorNames,
                   [c \in CalculatorNames |-> calculator(c, Self, LastEvent).weight]) = 100

----------------------------------------------------------------------------
(* The scenario of six high bets *)

\* the sixth bet of 2000 has been ingested, all six within 50 seconds
SixBetsIngested ==
    /\ Ingested
    /\ processedEvents = 6
    /\ LastUser \in DOMAIN activeUsers
    /\ activeUsers[LastUser].eventCount = 6
    /\ LastEvent.timestamp - activeUsers[LastUser].firstSeen <= 50000

SixHighValueBets ==
    LET actions == activeUsers[LastUser].behaviorMetrics.suspiciousActions
    IN  /\ Len(actions) = 6
        /\ \A i \in 1..6 : actions[i].type = "high_value_bet"

----------------------------------------------------------------------------
(* Betting velocity *)

\* the number of bet_placed events of user in the stream with a timestamp in
\* the 60 seconds that end at time t
BetsInWindow(user, t) ==
    Cardinality({i \in 1..Len(eventStream) :
        /\ eventStream[i].userId = user
        /\ eventStream[i].type = "bet_placed"
        /\ eventStream[i].timestamp >= t - velocityTimeWindow
        /\ eventStream[i].timestamp <= t})

\* C7: after processing any event of a user, of any type, the user's
\* bettingVelocity is the number of the user's bet_placed events with a
\* timestamp within the 60 seconds ending at the time of that event.
C7_VelocityIsWindowCount ==
    Ingested =>
        activeUsers[LastUser].behaviorMetrics.bettingVelocity
            = BetsInWindow(LastUser, LastEvent.timestamp)

\* C8: once the monitor and the replica have both ingested all bets of the
\* set, in whatever orders, the user's bettingVelocity is the same in both.
C8_VelocityIndependentOfOrder ==
    (replica.pending.monitor = {} /\ replica.pending.replica = {}) =>
        \A u \in DOMAIN activeUsers :
            /\ u \in DOMAIN replica.m.activeUsers
            /\ activeUsers[u].behaviorMetrics.bettingVelocity
                  = replica.m.activeUsers[u].behaviorMetrics.bettingVelocity

----------------------------------------------------------------------------
(* Invariants of the user profile *)

\* C9: after an event of a user has been recorded, the user's
\* suspiciousActions hold no entry older than 24 hours before the current time.
C9_NoSuspiciousActionOlderThanDay ==
    Ingested =>
        LET actions == activeUsers[LastUser].behaviorMetrics.suspiciousActions
        IN  \A i \in 1..Len(actions) : actions[i].timestamp >= now - DayMs

\* C10: every profile in activeUsers has lastActivity >= firstSeen.
C10_LastActivityNotBeforeFirstSeen ==
    \A u \in DOMAIN activeUsers :
        activeUsers[u].lastActivity >= activeUsers[u].firstSeen

----------------------------------------------------------------------------
(* Retention *)

\* C11: immediately after cleanupOldData, eventStream holds no event,
\* activeUsers no profile (by lastActivity), riskScores no entry and alertQueue
\* no alert with a timestamp older than now - monitoringWindow.
C11_NothingStaleAfterCleanup ==
    Returned("cleanupOldData") =>
        LET cutoff == now - config.monitoringWindow
        IN  /\ \A i \in 1..Len(eventStream) : eventStream[i].timestamp >= cutoff
            /\ \A u \in DOMAIN activeUsers : activeUsers[u].lastActivity >= cutoff
            /\ \A u \in DOMAIN riskScores : riskScores[u].timestamp >= cutoff
            /\ \A i \in 1..Len(alertQueue) : alertQueue[i].timestamp >= cutoff

\* a cleanup has expired the profile and the score of the first user and has
\* kept the event, the profile and the score of the second
C11_Witness ==
    /\ Returned("cleanupOldData")
    /\ processedEvents = 2
    /\ DOMAIN activeUsers = {"user_002"}
    /\ DOMAIN riskScores = {"user_002"}
    /\ Len(eventStream) = 1

\* C12: the number of events held in eventStream never exceeds
\* config.maxEventsPerWindow: an append beyond it drops the oldest events.
C12_StreamWithinMaxEvents ==
    Len(eventStream) <= config.maxEventsPerWindow

\* every entry of the four stores before a step is still there after it
NothingRemoved ==
    /\ Len(eventStream') >= Len(eventStream)
    /\ SubSeq(eventStream', 1, Len(eventStream)) = eventStream
    /\ DOMAIN activeUsers \subseteq DOMAIN activeUsers'
    /\ DOMAIN riskScores \subseteq DOMAIN riskScores'
    /\ Len(alertQueue') >= Len(alertQueue)
    /\ SubSeq(alertQueue', 1, Len(alertQueue)) = alertQueue

\* C13: no step other than a call of cleanupOldData removes an event from
\* eventStream, a profile from activeUsers, an entry from riskScores or an alert
\* from alertQueue: processIncomingEvent and calculateAggregateRisks only add
\* or update.
C13_OnlyCleanupRemoves ==
    [][CleanupOldData \/ NothingRemoved]_vars

----------------------------------------------------------------------------
(* Stopping the monitor *)

\* C14: once stop() has been called, no step fires the risk-aggregation
\* or the cleanup timer, opens or reopens the connection, sets isMonitoring, or
\* ingests an event.
C14_StaysStopped ==
    [][connection.stopped =>
          /\ timers' = timers
          /\ connection'.websocket \in {"closing", "closed"}
          /\ connection'.isMonitoring = FALSE
          /\ processedEvents' = processedEvents]_vars

----------------------------------------------------------------------------
(* Malformed events *)

\* C15: a step that hands processIncomingEvent an event without userId or
\* without type appends nothing to eventStream, creates or updates no profile
\* and no risk score, and does not count the event as processed.
C15_MalformedEventRejected ==
    [][IngestMalformed =>
          /\ eventStream' = eventStream
          /\ activeUsers' = activeUsers
          /\ riskScores' = riskScores
          /\ processedEvents' = processedEvents]_vars

----------------------------------------------------------------------------
(* Delivery of alerts *)

FailedCalls(calls) ==
    {i \in 1..Len(calls) : calls[i].response \in {"http_error", "network_error"}}

\* C16: a webhook delivery that fails takes nothing back and raises nothing:
\* in every step alertsSent does not decrease, no rejection leaves triggerAlert,
\* and every alert whose delivery failed is in alertQueue after the step as it
\* was created.
C16_FailedWebhookKeepsAlert ==
    [][/\ alertsSent' >= alertsSent
       /\ lastCall'.op # "unhandledRejection"
       /\ \A i \in FailedCalls(webhookCalls') :
              \E j \in 1..Len(alertQueue') : alertQueue'[j] = webhookCalls'[i].alert]_vars

\* the delivery of the first alert failed, triggerAlert went on, and the
\* monitor has processed a further event since
C16_Witness ==
    /\ Ingested
    /\ processedEvents = 3
    /\ Len(webhookCalls) >= 1
    /\ webhookCalls[1].response = "network_error"
    /\ webhookCalls[1].resumed
    /\ alertsSent >= 1
    /\ alertQueue[1] = webhookCalls[1].alert
    /\ LastEvent # webhookCalls[1].alert.event

\* C17: every alert appended to alertQueue is eventually emitted to the
\* 'fraudAlert' listeners, whatever the webhook does.
C17_EveryAlertEventuallyEmitted ==
    \A n \in 1..MaxWebhookSteps :
        (alertsSent >= n) ~> (\E i \in 1..Len(fraudAlerts) : fraudAlerts[i].alertId = n)

----------------------------------------------------------------------------
(* Alerts once created *)

\* the profile object an alert holds in userProfile, as it is now: the object
\* is the one activeUsers maps the user to for as long as the map holds it
HeldProfile(alert, users) ==
    {users[u] : u \in {v \in DOMAIN users : users[v].ref = alert.userProfile}}

\* C18: no step changes the recorded content of an alert that stays in
\* alertQueue: its riskScore, severity and event, and the profile data it holds.
C18_AlertContentNeverChanges ==
    [][\A i \in 1..Len(alertQueue) : \A j \in 1..Len(alertQueue') :
          alertQueue'[j].alertId = alertQueue[i].alertId =>
              /\ alertQueue'[j] = alertQueue[i]
              /\ HeldProfile(alertQueue'[j], activeUsers') # {} =>
                     HeldProfile(alertQueue'[j], activeUsers')
                         = HeldProfile(alertQueue[i], activeUsers)]_vars

----------------------------------------------------------------------------
(* Severity bands and recommendations *)

\* the band of a score, lower bounds inclusive
BandOf(score) ==
    CASE GE(score, Frac(9, 10)) -> "critical"
      [] GE(score, Frac(7, 10)) /\ ~GE(score, Frac(9, 10)) -> "high"
      [] GE(score, Frac(5, 10)) /\ ~GE(score, Frac(7, 10)) -> "medium"
      [] ~GE(score, Frac(5, 10)) -> "low"

\* C19: getSeverityLevel puts every score in the one band it belongs to
\* (critical from 0.9, high from 0.7, medium from 0.5, low below), and the
\* severity of every alert is the band of the alert's riskScore.
C19_SeverityIsBandOfScore ==
    /\ getSeverityLevel(lastCall.riskScore) = BandOf(lastCall.riskScore)
    /\ \A i \in 1..Len(alertQueue) :
          alertQueue[i].severity = BandOf(alertQueue[i].riskScore)

\* an alert was triggered with a score of exactly 0.7 and is classified high
C19_Witness ==
    /\ Returned("triggerAlert")
    /\ Len(alertQueue) = 1
    /\ alertQueue[1].riskScore = Frac(7, 10)
    /\ alertQueue[1].severity = "high"

\* the table of recommended actions by severity
ActionsFor(severity) ==
    CASE severity = "critical" -> {"immediate_account_suspension", "manual_review"}
      [] severity = "high"     -> {"enhanced_monitoring", "manual_review"}
      [] severity = "medium"   -> {"additional_verification"}
      [] severity = "low"      -> {}

\* C20: the recommendations of every alert are the actions the table gives
\* for the band of its score: suspension and manual review for critical,
\* enhanced monitoring and manual review for high, additional verification for
\* medium, none for low.
C20_RecommendationsBySeverity ==
    \A i \in 1..Len(alertQueue) :
        LET recommendations == alertQueue[i].recommendations
        IN  {recommendations[k] : k \in 1..Len(recommendations)}
                = ActionsFor(BandOf(alertQueue[i].riskScore))

----------------------------------------------------------------------------
(* Re-evaluation *)

\* C21: right after calculateRealTimeRisk has returned for an event, a second
\* call for the same event returns the same score and leaves the state as the
\* first call left it.
C21_RealTimeRiskIdempotent ==
    Returned("calculateRealTimeRisk") =>
        LET again == calculateRealTimeRisk(Self, LastEvent, lastCall.failed)
        IN  /\ again.score = lastCall.riskScore
            /\ again.m = Self

\* calculateRealTimeRisk was called for an earlier event of a user with two
\* later events: it stored a positive score with a factor under that event's
\* timestamp
C21_Witness ==
    /\ Returned("calculateRealTimeRisk")
    /\ processedEvents = 3
    /\ LastEvent = eventStream[1]
    /\ lastCall.riskScore.num > 0
    /\ riskScores[LastUser].score = lastCall.riskScore
    /\ Len(riskScores[LastUser].factors) > 0

----------------------------------------------------------------------------
(* Location changes *)

\* C29: processing a location_change adds one to the user's locationChanges
\* and appends a rapid_location_change action exactly when the user has a
\* previous location_change less than 5 minutes before this event; nothing is
\* appended for a user's first location_change.
C29_RapidIffPreviousWithinFiveMinutes ==
    [][(processedEvents' = processedEvents + 1
            /\ lastCall'.event.type = "location_change") =>
          LET e == lastCall'.event
              u == e.userId
              earlier == SelectSeq(eventStream, LAMBDA x :
                             x.userId = u /\ x.type = "location_change")
              old == IF u \in DOMAIN activeUsers
                     THEN activeUsers[u].behaviorMetrics
                     ELSE NewProfile(u, e, 0).behaviorMetrics
              new == activeUsers'[u].behaviorMetrics
              rapid == /\ Len(earlier) > 0
                       /\ e.timestamp - earlier[Len(earlier)].timestamp
                              < rapidLocationWindow
          IN  /\ new.locationChanges = old.locationChanges + 1
              /\ new.suspiciousActions =
                     IF rapid
                     THEN Append(old.suspiciousActions,
                                 SuspiciousAction("rapid_location_change", e))
                     ELSE old.suspiciousActions]_vars

----------------------------------------------------------------------------
(* Start of the loops *)

\* C30: whenever the connection is open and isMonitoring is true, also after
\* a reconnect that followed a failed first attempt, the risk-aggregation loop
\* and the cleanup loop have been started.
C30_LoopsRunWhileIngesting ==
    (connection.websocket = "open" /\ connection.isMonitoring) =>
        {"riskCalculation", "cleanup"} \subseteq DOMAIN timers

----------------------------------------------------------------------------
(* Properties of the biometrics analyzer *)

NoBaseline == [sessionCount |-> 0]
StoredBaseline(m, userId) ==
    IF userId \in DOMAIN m.userProfiles THEN m.userProfiles[userId] ELSE NoBaseline

\* C22: a user's stored baseline is created or changed only by the end of a
\* session of that user whose authenticity decision is authentic
C22_BaselineChangesOnlyWhenAuthentic ==
    [][\A userId \in Users :
          StoredBaseline(biometrics', userId) # StoredBaseline(biometrics, userId)
              => /\ biometrics'.report.userId = userId
                 /\ biometrics'.report.isAuthentic.authentic]_vars

Decided == "isAuthentic" \in DOMAIN biometrics.report
AtLeast(score, hundredths) == score.num * 100 >= hundredths * score.den

\* the three bands of the authenticity decision
Banded(score, threshold, decision) ==
    IF AtLeast(score, threshold)
    THEN decision = [authentic |-> TRUE, confidence |-> "high"]
    ELSE IF AtLeast(score, threshold - confidenceMargin)
    THEN decision = [authentic |-> TRUE, confidence |-> "medium"]
    ELSE decision = [authentic |-> FALSE, confidence |-> "high"]

\* C23 as stated: for every composite score s in [0, 1], s >= T is authentic
\* with high confidence, T - 0.2 <= s < T authentic with medium confidence,
\* and s < T - 0.2 not authentic with high confidence
C23_AuthenticityBands ==
    (Decided /\ biometrics.report.userId = "")
        => Banded(biometrics.report.compositeBiometricScore,
                  biometrics.config.similarityThreshold,
                  biometrics.report.isAuthentic)

\* C23 amended: the three bands hold for every composite score above 0, and
\* a score of 0 is not authentic for the reason insufficient_data
C23_AuthenticityBandsAboveZero ==
    (Decided /\ biometrics.report.userId = "")
        => IF biometrics.report.compositeBiometricScore.num > 0
           THEN Banded(biometrics.report.compositeBiometricScore,
                       biometrics.config.similarityThreshold,
                       biometrics.report.isAuthentic)
           ELSE biometrics.report.isAuthentic =
                    [authentic |-> FALSE, reason |-> "insufficient_data"]

\* a score of exactly T - 0.2 under the default threshold is authentic, medium
C23_Witness ==
    /\ Decided
    /\ biometrics.report.userId = ""
    /\ biometrics.config.similarityThreshold = similarityThreshold
    /\ biometrics.report.compositeBiometricScore.num * 100
         = (similarityThreshold - confidenceMargin)
             * biometrics.report.compositeBiometricScore.den
    /\ biometrics.report.isAuthentic = [authentic |-> TRUE, confidence |-> "medium"]

----------------------------------------------------------------------------
(* Properties of the network analyzer *)

Analyzed == network.call.op = "analyzeUserNetwork" /\ ~network.result.threw

\* C24: when the last two located observations of the analysed user imply a
\* speed above 1000 km/h, the analysis reports impossibleTravel
C24_ImpossibleTravelReported ==
    Analyzed =>
        LET history == network.userNetworkProfiles[network.call.userId].locationHistory
            n == Len(history)
        IN  (/\ n >= 2
             /\ network.result.analysis.geolocation.currentLocation # NoLocation
             /\ exceedsMaxPossibleSpeed(
                    calculateDistance(history[n - 1].location, history[n].location),
                    history[n].timestamp - history[n - 1].timestamp))
                => network.result.analysis.geolocation.impossibleTravel

\* C25: after detectFraudRings, every IP cluster and every device cluster
\* with at least minClusterSize members has a ring, and no smaller one has
C25_RingForEveryLargeCluster ==
    network.call.op = "detectFraudRings" =>
        /\ \A ipAddress \in DOMAIN network.ipClusters :
              (Cardinality(network.ipClusters[ipAddress].users) >= network.config.minClusterSize)
                  <=> (\E ring \in network.fraudRings :
                          ring.type = "ip_cluster" /\ ring.key = ipAddress)
        /\ \A fingerprint \in DOMAIN network.deviceFingerprints :
              (Cardinality(network.deviceFingerprints[fingerprint].users)
                    >= network.config.minClusterSize)
                  <=> (\E ring \in network.fraudRings :
                          ring.type = "device_cluster" /\ ring.key = fingerprint)

\* the users whose history holds an observation from the address
UsersSeenOn(ipAddress) ==
    {userId \in DOMAIN network.userNetworkProfiles :
        \E i \in 1..Len(network.userNetworkProfiles[userId].ipHistory) :
            network.userNetworkProfiles[userId].ipHistory[i].ip = ipAddress}

\* C26: isSharedIP is true exactly when the number of distinct users seen on
\* the address exceeds suspiciousNetworkThreshold
C26_SharedIPExactlyAboveThreshold ==
    Analyzed =>
        (network.result.analysis.ipAnalysis.isSharedIP
            <=> Cardinality(UsersSeenOn(network.call.networkInfo.ipAddress))
                    > network.config.suspiciousNetworkThreshold)

\* a third user on an address with threshold 2
C26_Witness ==
    /\ Analyzed
    /\ Cardinality(UsersSeenOn(network.call.networkInfo.ipAddress)) = 3
    /\ network.result.analysis.ipAnalysis.isSharedIP

Fingerprinted == Len(network.fingerprints) = 2

\* the fingerprinted fields in which the two payloads differ
Differing ==
    {i \in 1..Len(fingerprintKeys) :
        Field(network.payloads[1], fingerprintKeys[i][2])
            # Field(network.payloads[2], fingerprintKeys[i][2])}

\* C27 as stated: equal field values give equal fingerprints whatever the
\* order of the fields, and a difference in exactly one fingerprinted field
\* gives different fingerprints
C27_FingerprintDistinguishes ==
    Fingerprinted =>
        /\ Differing = {} => network.fingerprints[1] = network.fingerprints[2]
        /\ Cardinality(Differing) = 1 => network.fingerprints[1] # network.fingerprints[2]

\* the field holds a value that JSON can carry, or none
Plain(networkData, i) == Field(networkData, fingerprintKeys[i][2]) # NaN

\* C27 amended: equal field values give equal fingerprints whatever the
\* order of the fields, and a difference in exactly one fingerprinted field
\* gives different fingerprints when neither value of that field is NaN
C27_FingerprintDistinguishesPlainValues ==
    Fingerprinted =>
        /\ Differing = {} => network.fingerprints[1] = network.fingerprints[2]
        /\ (/\ Cardinality(Differing) = 1
            /\ \A i \in Differing :
                  Plain(network.payloads[1], i) /\ Plain(network.payloads[2], i))
              => network.fingerprints[1] # network.fingerprints[2]

\* a number against the string of its digits in colorDepth alone
C27_Witness ==
    /\ Fingerprinted
    /\ network.payloads[1] = Desktop
    /\ network.payloads[2] = With(Desktop, "colorDepth", Str("24"))
    /\ network.fingerprints[1] # network.fingerprints[2]

\* C28: a call of analyzeUserNetwork in which a lookup fails returns an
\* analysis, it does not throw
C28_LookupFailureNotPropagated ==
    (/\ network.call.op = "analyzeUserNetwork"
     /\ network.call.lookups \in {"geolocation_fails", "proxy_fails"})
        => ~network.result.threw

----------------------------------------------------------------------------
(* Properties of the sweeps against the evaluation of events *)

\* C31: a step that appends an event is the whole evaluation of that event,
\* up to its score being stored and its alert decision, and fires no timer;
\* a step in which a timer fires is one sweep and no part of an evaluation
C31_SweepsNeverInterleave ==
    [][/\ processedEvents' # processedEvents =>
            /\ timers' = timers
            /\ lastCall'.op = "processIncomingEvent"
            /\ lastCall'.event = eventStream'[Len(eventStream')]
            /\ riskScores'[lastCall'.event.userId].score = lastCall'.riskScore
            /\ riskScores'[lastCall'.event.userId].timestamp = lastCall'.event.timestamp
            /\ IF GE(lastCall'.riskScore, config.alertThreshold)
               THEN /\ alertsSent' = alertsSent + 1
                    /\ alertQueue'[Len(alertQueue')].event = lastCall'.event
               ELSE alertsSent' = alertsSent /\ alertQueue' = alertQueue
       /\ timers' # timers =>
            /\ processedEvents' = processedEvents
            /\ alertsSent' = alertsSent
            /\ lastCall'.op \in {"calculateAggregateRisks", "cleanupOldData"}
            /\ \E name \in DOMAIN timers :
                  \A other \in DOMAIN timers \ {name} : timers'[other] = timers[other]]_vars

\* the fast sweep has run over a stream that holds an evaluated event
C31_Witness ==
    /\ lastCall.op = "calculateAggregateRisks"
    /\ Len(eventStream) > 0
    /\ alertsSent > 0

\* C32: every user whose live risk score is at or above the alert threshold
\* has had an alert raised for that score
C32_HighRiskUsersWereAlerted ==
    \A userId \in DOMAIN riskScores :
        GE(riskScores[userId].score, config.alertThreshold)
            => \E i \in 1..Len(fraudAlerts) :
                  /\ fraudAlerts[i].userId = userId
                  /\ fraudAlerts[i].riskScore = riskScores[userId].score
                  /\ fraudAlerts[i].event.timestamp = riskScores[userId].timestamp

\* the users with an event in eventStream or an entry in riskScores
RetainedUsers ==
    {eventStream[i].userId : i \in 1..Len(eventStream)} \cup DOMAIN riskScores

\* C39: when cleanupOldData has run, every user with an event in eventStream
\* or an entry in riskScores has a profile in activeUsers
C39_RetainedUsersHaveProfiles ==
    Returned("cleanupOldData") => RetainedUsers \subseteq DOMAIN activeUsers

\* C33: 'fraudAlert' notifications are emitted in the order in which their
\* alerts were created, with or without a webhook
C33_AlertsEmittedInCreationOrder ==
    \A i, j \in 1..Len(fraudAlerts) :
        i < j => fraudAlerts[i].alertId < fraudAlerts[j].alertId

----------------------------------------------------------------------------
(* Properties of biometric collection and of the session's end *)

\* C34: when endSession completes for a user whose currentSession entry is a
\* session started after that endSession began, the entry is still there,
\* unchanged and active
C34_NewSessionSurvivesEndSession ==
    [][\A userId \in DOMAIN biometrics.ending :
          /\ userId \notin DOMAIN biometrics'.ending
          /\ biometrics.currentSession[userId].sessionId
                # biometrics.ending[userId].sessionId
          => /\ userId \in DOMAIN biometrics'.currentSession
             /\ biometrics'.currentSession[userId] = biometrics.currentSession[userId]
             /\ biometrics'.currentSession[userId].isActive]_vars

\* the composite of the analyses of a report, counting only the modalities
\* with at least minDataPoints samples
SufficientComposite(report) ==
    calculateCompositeBiometricScore(
        [i \in 1..Len(Modalities) |->
            IF report.dataQuality[Modalities[i]] >= biometrics.config.minDataPoints
            THEN report.profiles[Modalities[i]]
            ELSE [type |-> Modalities[i]]])

\* C38: the composite score of a report is the weighted average of the
\* similarities of the modalities with at least minDataPoints samples
C38_CompositeOverSufficientModalities ==
    "dataQuality" \in DOMAIN biometrics.report =>
        LET composite == biometrics.report.compositeBiometricScore
            expected  == SufficientComposite(biometrics.report)
        IN  composite.num * expected.den = expected.num * composite.den

\* the snapshots of one modality among a session's interactionPatterns
Snapshots(session, modality) ==
    Cardinality({i \in 1..Len(session.interactionPatterns) :
                    session.interactionPatterns[i].type = modality})

\* C35: in an active session, the collect call that takes the number of
\* samples of a modality to a multiple of its interval (50 mouse, 20
\* keystroke, 30 touch, 15 scroll) triggers the analysis of that modality
C35_AnalysisEveryIntervalSamples ==
    [][\A modality \in ModalitySet :
          /\ biometrics'.events[modality] = biometrics.events[modality] + 1
          /\ biometrics'.events[modality] % analysisInterval[modality] = 0
          => Snapshots(biometrics'.currentSession["user_001"], modality)
                = Snapshots(biometrics.currentSession["user_001"], modality) + 1]_vars

----------------------------------------------------------------------------
(* Properties of the network analyzer's stores *)

ClusterAddresses ==
    {extractNetworkInfo(networkData, 0).ipAddress : networkData \in NetworkPayloads}
ClusterFingerprints ==
    {extractNetworkInfo(networkData, 0).browserFingerprint : networkData \in NetworkPayloads}

\* the cluster stored under key was last seen before the monitoring window
StaleCluster(clusters, key) ==
    /\ key \in DOMAIN clusters
    /\ clusters[key].lastSeen < now - defaultMonitoringWindow

\* C36: an IP cluster or device-fingerprint cluster whose lastSeen is older
\* than the monitoring window is eventually removed from its map
C36_StaleClustersEventuallyRemoved ==
    /\ \A ipAddress \in ClusterAddresses :
          StaleCluster(network.ipClusters, ipAddress)
              ~> (ipAddress \notin DOMAIN network.ipClusters)
    /\ \A fingerprint \in ClusterFingerprints :
          StaleCluster(network.deviceFingerprints, fingerprint)
              ~> (fingerprint \notin DOMAIN network.deviceFingerprints)

\* the last maxHistorySize entries of a history
Latest(history) ==
    SubSeq(history, Len(history) - Min(Len(history), maxHistorySize) + 1, Len(history))

\* the history of a user before it has a profile is empty
HistoryOf(m, userId, history) ==
    IF userId \in DOMAIN m.userNetworkProfiles
    THEN m.userNetworkProfiles[userId][history] ELSE <<>>

\* C37: an analysis of a user leaves in ipHistory and deviceHistory the last
\* 100 entries of the history with the entry of this analysis appended, and in
\* locationHistory the last 100 with or without a new entry; none is longer
C37_HistoriesHoldLatestHundred ==
    [][network'.calls = network.calls + 1 /\ network'.call.op = "analyzeUserNetwork" =>
        LET userId == network'.call.userId
            networkInfo == network'.call.networkInfo
            before(history) == HistoryOf(network, userId, history)
            after(history) == HistoryOf(network', userId, history)
            located == after("locationHistory")
        IN  /\ after("ipHistory") = Latest(Append(before("ipHistory"),
                    [ip |-> networkInfo.ipAddress, timestamp |-> now]))
            /\ after("deviceHistory") = Latest(Append(before("deviceHistory"),
                    [fingerprint |-> networkInfo.browserFingerprint, timestamp |-> now]))
            /\ \/ located = before("locationHistory")
               \/ located = Latest(Append(before("locationHistory"), located[Len(located)]))
            /\ \A history \in {"ipHistory", "deviceHistory", "locationHistory"} :
                  Len(after(history)) <= maxHistorySize]_vars

\* the user has been analysed more than 100 times, the ipHistory is full and
\* the entry of the other address has moved down in it
C37_Witness ==
    /\ network.calls > maxHistorySize
    /\ LET profile == HistoryOf(network, "user_001", "ipHistory")
       IN  /\ Len(profile) = maxHistorySize
           /\ \E i \in 1..(maxHistorySize - 2) : profile[i].ip = Field(OtherAddress, "ipAddress")
    /\ Len(HistoryOf(network, "user_001", "locationHistory")) = maxHistorySize

====
